---- MODULE Spec2Model ----
(***************************************************************************)
(* Model of the task execution and verification engine of llm-x-language:  *)
(* the output comparators (src/utils.py), the response extractor, the      *)
(* per-language adapters and the Run task's process lifecycle, the entry    *)
(* points of Call tasks, the providers' retry loops and the ResultDB.       *)
(*                                                                         *)
(* Text is a sequence of tokens.  A token is a one-character string, or a  *)
(* word that the code only ever treats as a unit.                          *)
(***************************************************************************)
EXTENDS Integers, Sequences, FiniteSets, TLC

VARIABLES
    \* are_json_values_equal(value1, value2)
    value1, value2, jsonResult, jsonPc,
    \* check_contains_matches(text, matches, mode) and its local `results`
    text, matches, mode, results, containsResult, containsPc,
    \* query_code(prompt, model) of one adapter on one model response, then a
    \* second extraction of its result wrapped in one fence
    lang, matches_func, fenced_blocks, response, code_blocks, code, rewrapped,
    code_again, queryPc,
    \* one attempt of a task: Executor.call down to the adapter operation, with
    \* the worker thread and the server process of a Run task
    language, task_kind, expected_output, llm_response, source_code, callPc,
    written, checked, executed, returned, success, errors, tokens,
    workerPc, process, handle, serverAlive, termSent, probes, probeOutcome,
    \* what the attempt has been through: the adapter operation entered, the
    \* token counts of the provider, the Result of the static check and of
    \* execute_capture
    operation, usage, check_result, capture_result,
    \* one call of run_*_with_output / run_python_script / run_php_script
    capLang, program, capClock, capAlive, capPc, capSuccess, capErrors,
    \* remove_rust_main_function(code) and the entry point exec_call appends
    rust_code, stripped, wrapped, mainPc,
    \* are_string_values_equal(value1, value2, lowercase)
    strValue1, strValue2, lowercase, strResult, strPc,
    \* the entry point a Call adapter generates for the extracted code
    entryLang, example_code, entry_point, entryPc,
    \* one call of a provider's request: the retry loop and its locals
    provider, fail_counter, attempts, response_status, outcomes, raised,
    providerPc,
    \* a ResultDB under execute_all_tasks and merge_with
    db_results, tasks, run_args, task_result, executed_key, last_op, dbPc

jsonVars == <<value1, value2, jsonResult, jsonPc>>
containsVars == <<text, matches, mode, results, containsResult, containsPc>>

queryVars ==
    <<lang, matches_func, fenced_blocks, response, code_blocks, code, rewrapped,
      code_again, queryPc>>

execVars ==
    <<language, task_kind, expected_output, llm_response, source_code, callPc,
      written, checked, executed, returned, success, errors, tokens,
      workerPc, process, handle, serverAlive, termSent, probes, probeOutcome,
      operation, usage, check_result, capture_result>>

captureVars == <<capLang, program, capClock, capAlive, capPc, capSuccess, capErrors>>

mainVars == <<rust_code, stripped, wrapped, mainPc>>
stringVars == <<strValue1, strValue2, lowercase, strResult, strPc>>
entryVars == <<entryLang, example_code, entry_point, entryPc>>

providerVars ==
    <<provider, fail_counter, attempts, response_status, outcomes, raised,
      providerPc>>

dbVars == <<db_results, tasks, run_args, task_result, executed_key, last_op, dbPc>>

vars ==
    <<jsonVars, containsVars, queryVars, execVars, captureVars, mainVars,
      stringVars, entryVars, providerVars, dbVars>>

\* what the operations on one group of variables leave alone
notJsonVars ==
    <<containsVars, queryVars, execVars, captureVars,
      mainVars, stringVars, entryVars, providerVars, dbVars>>
notContainsVars ==
    <<jsonVars, queryVars, execVars, captureVars,
      mainVars, stringVars, entryVars, providerVars, dbVars>>
notQueryVars ==
    <<jsonVars, containsVars, execVars, captureVars,
      mainVars, stringVars, entryVars, providerVars, dbVars>>
notExecVars ==
    <<jsonVars, containsVars, queryVars, captureVars,
      mainVars, stringVars, entryVars, providerVars, dbVars>>
notCaptureVars ==
    <<jsonVars, containsVars, queryVars, execVars,
      mainVars, stringVars, entryVars, providerVars, dbVars>>
notMainVars ==
    <<jsonVars, containsVars, queryVars, execVars,
      captureVars, stringVars, entryVars, providerVars, dbVars>>
notStringVars ==
    <<jsonVars, containsVars, queryVars, execVars,
      captureVars, mainVars, entryVars, providerVars, dbVars>>
notEntryVars ==
    <<jsonVars, containsVars, queryVars, execVars, captureVars, mainVars,
      stringVars, providerVars, dbVars>>
notProviderVars ==
    <<jsonVars, containsVars, queryVars, execVars, captureVars, mainVars,
      stringVars, entryVars, dbVars>>
notDbVars ==
    <<jsonVars, containsVars, queryVars, execVars, captureVars, mainVars,
      stringVars, entryVars, providerVars>>

(***************************************************************************)
(* Generic helpers on sequences.                                           *)
(***************************************************************************)
None == "None"

Range(s) == {s[i] : i \in 1..Len(s)}

\* Python slice s[a:b] with 0-based a, b already clipped to 0..len(s).
Slice(s, a, b) == IF b <= a THEN <<>> ELSE SubSeq(s, a + 1, b)

\* Sequences over S of length 0..n.
SeqsUpTo(S, n) == UNION {[1..k -> S] : k \in 0..n}

(***************************************************************************)
(* JSON-like trees.  A scalar is [k |-> "scalar", t, v]; a list is         *)
(* [k |-> "list", items]; a dict is [k |-> "dict", keys, vals] with keys   *)
(* in insertion order, as a Python dict keeps them.                        *)
(***************************************************************************)
MaxListLen == 2

IntScalar(n) == [k |-> "scalar", t |-> "int", v |-> n]
StrScalar(n) == [k |-> "scalar", t |-> "str", v |-> n]
MkList(items) == [k |-> "list", items |-> items]
MkDict(keys, vals) == [k |-> "dict", keys |-> keys, vals |-> vals]

IsDict(x) == x.k = "dict"
IsList(x) == x.k = "list"

\* Code points of the characters repr() produces here.
KeyCode(key) == IF key = "a" THEN 97 ELSE 98
DigitCode(n) == 48 + n

\* repr of a scalar: an int prints its digit, the string with index n prints
\* as the quoted letter chr(97 + n).
ScalarRepr(x) == IF x.t = "int" THEN <<DigitCode(x.v)>> ELSE <<39, 97 + x.v, 39>>

RECURSIVE JoinRepr(_, _)
\* ", ".join(parts) over code-point sequences
JoinRepr(parts, i) ==
    IF i > Len(parts) THEN <<>>
    ELSE IF i = Len(parts) THEN parts[i]
    ELSE parts[i] \o <<44, 32>> \o JoinRepr(parts, i + 1)

RECURSIVE Repr(_)
\* Python's repr() of a JSON-like tree, as a sequence of code points.
Repr(x) ==
    IF x.k = "scalar" THEN ScalarRepr(x)
    ELSE IF x.k = "list"
        THEN <<91>> \o JoinRepr([i \in 1..Len(x.items) |-> Repr(x.items[i])], 1) \o <<93>>
    ELSE <<123>>
         \o JoinRepr([i \in 1..Len(x.keys) |->
                <<39, KeyCode(x.keys[i]), 39, 58, 32>> \o Repr(x.vals[i])], 1)
         \o <<125>>

RECURSIVE StrLess(_, _)
\* Python's s < t on strings: lexicographic by code point.
StrLess(s, t) ==
    IF t = <<>> THEN FALSE
    ELSE IF s = <<>> THEN TRUE
    ELSE IF Head(s) # Head(t) THEN Head(s) < Head(t)
    ELSE StrLess(Tail(s), Tail(t))

RECURSIVE InsertByRepr(_, _)
\* Insert x into a list already sorted by repr, after every element whose key
\* is not greater (Python's sort is stable).
InsertByRepr(sortedList, x) ==
    IF sortedList = <<>> THEN <<x>>
    ELSE IF StrLess(Repr(x), Repr(Head(sortedList)))
        THEN <<x>> \o sortedList
    ELSE <<Head(sortedList)>> \o InsertByRepr(Tail(sortedList), x)

RECURSIVE SortedByReprFrom(_, _, _)
SortedByReprFrom(items, i, acc) ==
    IF i > Len(items) THEN acc
    ELSE SortedByReprFrom(items, i + 1, InsertByRepr(acc, items[i]))

\* sorted(value, key=repr)
SortedByRepr(items) == SortedByReprFrom(items, 1, <<>>)

\* value[key] of a dict that holds key
DictGet(d, key) == d.vals[CHOOSE i \in 1..Len(d.keys) : d.keys[i] = key]

\* a comparison in which a dict on the left equals whatever is on the right
PrimitiveEqDictFirst(x, y) ==
    IF x.k = "dict" THEN TRUE
    ELSE /\ x.k = y.k
         /\ IF x.k = "scalar" THEN x.t = y.t /\ x.v = y.v ELSE x = y

\* Python's == on two values that are not both dicts and not both lists.
PrimitiveEq(x, y) ==
    /\ x.k = y.k
    /\ IF x.k = "scalar" THEN x.t = y.t /\ x.v = y.v ELSE x = y

\* The two lists as are_json_values_equal pairs them up.
PairingOrder(items) == SortedByRepr(items)

RECURSIVE are_json_values_equal(_, _)
are_json_values_equal(x, y) ==
    IF IsDict(x) /\ IsDict(y) THEN
        IF Range(x.keys) # Range(y.keys) THEN FALSE
        ELSE \A i \in 1..Len(x.keys) :
                are_json_values_equal(x.vals[i], DictGet(y, x.keys[i]))
    ELSE IF IsList(x) /\ IsList(y) THEN
        IF Len(x.items) # Len(y.items) THEN FALSE
        ELSE LET s1 == PairingOrder(x.items)
                 s2 == PairingOrder(y.items)
             IN \A i \in 1..Len(s1) : are_json_values_equal(s1[i], s2[i])
    ELSE PrimitiveEq(x, y)

\* The trees the comparison is tried on.
JsonScalars == {IntScalar(1), IntScalar(2), StrScalar(0)}
JsonKeys == {"a", "b"}
JsonKeySeqs == {ks \in SeqsUpTo(JsonKeys, 2) : \A i, j \in 1..Len(ks) : i # j => ks[i] # ks[j]}
JsonDicts ==
    UNION {{MkDict(ks, vs) : vs \in [1..Len(ks) -> {IntScalar(1), IntScalar(2)}]} :
              ks \in JsonKeySeqs}
JsonElements ==
    JsonScalars \cup {d \in JsonDicts : Len(d.keys) = 2 /\ d.vals[1] # d.vals[2]}
JsonLists == {MkList(items) : items \in SeqsUpTo(JsonElements, MaxListLen)}
JsonTrees == JsonScalars \cup JsonDicts \cup JsonLists

QueryIdle ==
    /\ lang = "python"
    /\ matches_func = FALSE
    /\ fenced_blocks = <<>>
    /\ response = <<>>
    /\ code_blocks = <<>>
    /\ code = <<>>
    /\ rewrapped = <<>>
    /\ code_again = <<>>
    /\ queryPc = "idle"

ExecIdle ==
    /\ language = "python"
    /\ task_kind = "check"
    /\ expected_output = "str"
    /\ llm_response = <<>>
    /\ source_code = <<>>
    /\ callPc = "idle"
    /\ written = FALSE
    /\ checked = FALSE
    /\ executed = FALSE
    /\ returned = "none"
    /\ success = FALSE
    /\ errors = <<>>
    /\ tokens = "unset"
    /\ workerPc = "idle"
    /\ process = None
    /\ handle = None
    /\ serverAlive = FALSE
    /\ termSent = FALSE
    /\ probes = 0
    /\ probeOutcome = "none"
    /\ operation = <<>>
    /\ usage = "none"
    /\ check_result = "none"
    /\ capture_result = "none"

CaptureIdle ==
    /\ capLang = "python"
    /\ program = [exits |-> TRUE, stderr |-> "empty", returncode |-> 0]
    /\ capClock = 0
    /\ capAlive = FALSE
    /\ capPc = "idle"
    /\ capSuccess = FALSE
    /\ capErrors = "none"

MainIdle ==
    /\ rust_code = <<>>
    /\ stripped = <<>>
    /\ wrapped = <<>>
    /\ mainPc = "idle"

StringIdle ==
    /\ strValue1 = <<>>
    /\ strValue2 = <<>>
    /\ lowercase = FALSE
    /\ strResult = FALSE
    /\ strPc = "idle"

EntryIdle ==
    /\ entryLang = "python"
    /\ example_code = <<>>
    /\ entry_point = <<>>
    /\ entryPc = "idle"

ProviderIdle ==
    /\ provider = "openrouter"
    /\ fail_counter = 0
    /\ attempts = 0
    /\ response_status = 0
    /\ outcomes = <<>>
    /\ raised = "none"
    /\ providerPc = "idle"

DbIdle ==
    /\ db_results = <<>>
    /\ tasks = <<>>
    /\ run_args = <<>>
    /\ task_result = <<>>
    /\ executed_key = <<>>
    /\ last_op = "none"
    /\ dbPc = "idle"

ContainsIdle ==
    /\ text = <<>>
    /\ matches = <<>>
    /\ mode = "and"
    /\ results = <<>>
    /\ containsResult = FALSE
    /\ containsPc = "idle"

JsonIdle ==
    /\ value1 = None
    /\ value2 = None
    /\ jsonResult = FALSE
    /\ jsonPc = "idle"

JsonInit ==
    /\ MainIdle
    /\ StringIdle
    /\ EntryIdle
    /\ ProviderIdle
    /\ DbIdle
    /\ ContainsIdle
    /\ QueryIdle
    /\ ExecIdle
    /\ CaptureIdle
    /\ value1 \in JsonTrees
    /\ value2 \in JsonTrees
    /\ jsonResult = FALSE
    /\ jsonPc = "call"

JsonCompare ==
    /\ jsonPc = "call"
    /\ jsonResult' = are_json_values_equal(value1, value2)
    /\ jsonPc' = "done"
    /\ UNCHANGED <<value1, value2, notJsonVars>>

JsonNext == JsonCompare

SpecJson == JsonInit /\ [][JsonNext]_vars

(***************************************************************************)
(* What "equal up to the order of keys and of elements" means, stated      *)
(* without any sorting.                                                    *)
(***************************************************************************)
RECURSIVE EqualUpToOrder(_, _)
EqualUpToOrder(x, y) ==
    IF x.k # y.k THEN FALSE
    ELSE IF x.k = "scalar" THEN x.t = y.t /\ x.v = y.v
    ELSE IF x.k = "dict" THEN
        /\ Range(x.keys) = Range(y.keys)
        /\ \A i \in 1..Len(x.keys) : EqualUpToOrder(x.vals[i], DictGet(y, x.keys[i]))
    ELSE
        /\ Len(x.items) = Len(y.items)
        /\ \E p \in Permutations(1..Len(x.items)) :
              \A i \in 1..Len(x.items) : EqualUpToOrder(x.items[i], y.items[p[i]])

RECURSIVE SumSeq(_, _)
SumSeq(s, i) == IF i > Len(s) THEN 0 ELSE s[i] + SumSeq(s, i + 1)

RECURSIVE ScalarDiffs(_, _)
\* The number of scalar positions where two trees of the same shape differ,
\* counted up to 2; 2 also when the shapes differ.
ScalarDiffs(x, y) ==
    LET cap(n) == IF n > 2 THEN 2 ELSE n
    IN  IF x.k # y.k THEN 2
        ELSE IF x.k = "scalar" THEN (IF x = y THEN 0 ELSE 1)
        ELSE IF x.k = "dict" THEN
            IF x.keys # y.keys THEN 2
            ELSE cap(SumSeq([i \in 1..Len(x.keys) |-> ScalarDiffs(x.vals[i], y.vals[i])], 1))
        ELSE
            IF Len(x.items) # Len(y.items) THEN 2
            ELSE cap(SumSeq([i \in 1..Len(x.items) |->
                                ScalarDiffs(x.items[i], y.items[i])], 1))

\* C4: are_json_values_equal returns true for any two trees equal up to the
\* order of map keys and of sequence elements at every level (sequences of
\* maps included), and false for two trees that differ in one scalar value.
C4_OrderInsensitiveEquality ==
    jsonPc = "done" =>
        /\ EqualUpToOrder(value1, value2) => jsonResult
        /\ ScalarDiffs(value1, value2) = 1 => ~jsonResult

\* The second half of C4 alone.
C4_OneScalarDiffers ==
    jsonPc = "done" => (ScalarDiffs(value1, value2) = 1 => ~jsonResult)

\* The first half of C4 for trees that hold no list of dicts.
C4_NoListOfDicts ==
    (jsonPc = "done" /\ EqualUpToOrder(value1, value2)
        /\ \A x \in {value1, value2} :
              IsList(x) => \A i \in 1..Len(x.items) : ~IsDict(x.items[i]))
    => jsonResult

\* C28: are_json_values_equal is reflexive and symmetric over JSON-like
\* trees, and a map is never reported equal to a sequence or to a scalar.
C28_ReflexiveSymmetricTyped ==
    jsonPc = "done" =>
        /\ value1 = value2 => jsonResult
        /\ jsonResult = are_json_values_equal(value2, value1)
        /\ IsDict(value1) # IsDict(value2) => ~jsonResult

\* two different trees were compared and found equal, in either order
C28_Witness ==
    /\ jsonPc = "done"
    /\ value1 # value2
    /\ IsList(value1)
    /\ jsonResult
    /\ are_json_values_equal(value2, value1)

\* a map was compared with a sequence
C28_MapAgainstListWitness ==
    /\ jsonPc = "done"
    /\ IsDict(value1)
    /\ IsList(value2)
    /\ ~jsonResult

(***************************************************************************)
(* check_contains_matches.  An optional string (ContainsMatch.before,      *)
(* ContainsMatch.after) is <<>> for None and <<s>> for the string s.       *)
(***************************************************************************)
MaxTextLen == 4
MaxPatLen == 2
MaxMatches == 2

NoneStr == <<>>
Some(s) == <<s>>
IsNotNone(o) == Len(o) = 1
Get(o) == o[1]

\* text[i : i + len(sub)] == sub, for a 0-based i
OccursAt(t, sub, i) ==
    /\ i >= 0
    /\ i + Len(sub) <= Len(t)
    /\ \A j \in 1..Len(sub) : t[i + j] = sub[j]

\* str.find(sub, start): the lowest index >= start where sub occurs, or -1
Find(t, sub, start) ==
    LET hits == {i \in start..Len(t) : OccursAt(t, sub, i)}
    IN  IF hits = {} THEN -1 ELSE CHOOSE i \in hits : \A j \in hits : i <= j

\* str.rfind(sub, 0, end): the highest index where sub occurs inside t[0:end], or -1
RFind(t, sub, end) ==
    LET hits == {i \in 0..end : i + Len(sub) <= end /\ OccursAt(t, sub, i)}
    IN  IF hits = {} THEN -1 ELSE CHOOSE i \in hits : \A j \in hits : i >= j

RECURSIVE ContainsPositions(_, _, _)
\* the `while True` loop collecting contains_positions
ContainsPositions(t, sub, start_pos) ==
    LET pos == Find(t, sub, start_pos)
    IN  IF pos = -1 THEN <<>>
        ELSE <<pos>> \o ContainsPositions(t, sub, pos + 1)

\* where the search for `before` starts, for the occurrence at c_pos
BeforeSearchFromStart(c_pos, match) == c_pos
BeforeSearchStart(c_pos, match) == c_pos + Len(match.contains)

\* position_valid for one occurrence of match.contains
PositionValid(t, match, c_pos) ==
    LET afterOk ==
            IF IsNotNone(match.after)
            THEN RFind(t, Get(match.after), c_pos) # -1
            ELSE TRUE
    IN  IF IsNotNone(match.before) /\ afterOk
        THEN Find(t, Get(match.before), BeforeSearchStart(c_pos, match)) # -1
        ELSE afterOk

RECURSIVE ValidFromPosition(_, _, _, _)
\* the `for c_pos in contains_positions` loop with its break
ValidFromPosition(t, match, positions, i) ==
    IF i > Len(positions) THEN FALSE
    ELSE IF PositionValid(t, match, positions[i]) THEN TRUE
    ELSE ValidFromPosition(t, match, positions, i + 1)

\* valid_for_this_match
ValidForThisMatch(t, match) ==
    ValidFromPosition(t, match, ContainsPositions(t, match.contains, 0), 1)

\* the list `results`
MatchResults(t, ms) == [i \in 1..Len(ms) |-> ValidForThisMatch(t, ms[i])]

AnyForAnd(rs) == \E i \in 1..Len(rs) : rs[i]
AllResults(rs) == \A i \in 1..Len(rs) : rs[i]

\* the final `if mode == "and"`
CombineResults(rs, m) ==
    IF m = "and" THEN AllResults(rs) ELSE \E i \in 1..Len(rs) : rs[i]

ContainsAlphabet == {"a", "b"}
Texts == SeqsUpTo(ContainsAlphabet, MaxTextLen)
Patterns == SeqsUpTo(ContainsAlphabet, MaxPatLen)
OptPatterns == {NoneStr} \cup {Some(p) : p \in Patterns}
ContainsMatches == [contains : Patterns, before : OptPatterns, after : OptPatterns]
\* the matches that lists of several are drawn from
ListMatches ==
    [contains : {<<"a">>, <<"b">>},
     before : {NoneStr, Some(<<"b">>)},
     after : {NoneStr, Some(<<"a">>)}]
Modes == {"and", "or"}

ContainsInit ==
    /\ MainIdle
    /\ StringIdle
    /\ EntryIdle
    /\ ProviderIdle
    /\ DbIdle
    /\ JsonIdle
    /\ QueryIdle
    /\ ExecIdle
    /\ CaptureIdle
    /\ text \in Texts
    /\ \/ /\ matches \in {<<m>> : m \in ContainsMatches}
          /\ mode = "and"
       \/ /\ matches \in SeqsUpTo(ListMatches, MaxMatches)
          /\ mode \in Modes
    /\ results = <<>>
    /\ containsResult = FALSE
    /\ containsPc = "call"

ContainsCheck ==
    /\ containsPc = "call"
    /\ results' = MatchResults(text, matches)
    /\ containsResult' = CombineResults(results', mode)
    /\ containsPc' = "done"
    /\ UNCHANGED <<text, matches, mode, notContainsVars>>

ContainsNext == ContainsCheck

SpecContains == ContainsInit /\ [][ContainsNext]_vars

\* t holds sub at the 0-based index i
Occurrence(t, sub, i) == i \in 0..Len(t) /\ i + Len(sub) <= Len(t) /\ SubSeq(t, i + 1, i + Len(sub)) = sub

\* the occurrence of match.contains at c satisfies both ordering constraints
OccurrenceSatisfies(t, match, c) ==
    /\ Occurrence(t, match.contains, c)
    /\ IsNotNone(match.after) =>
          \E j \in 0..Len(t) :
              Occurrence(t, Get(match.after), j) /\ j + Len(Get(match.after)) <= c
    /\ IsNotNone(match.before) =>
          \E j \in 0..Len(t) :
              Occurrence(t, Get(match.before), j) /\ j >= c + Len(match.contains)

MatchSucceeds(t, match) == \E c \in 0..Len(t) : OccurrenceSatisfies(t, match, c)

\* C5: a single ContainsMatch succeeds iff one occurrence of `contains`
\* (overlapping ones included) has, when `after` is set, an occurrence of
\* `after` wholly before it and, when `before` is set, an occurrence of
\* `before` starting at or after its end; both for the same occurrence.
C5_SingleOccurrenceDecides ==
    containsPc = "done" =>
        \A i \in 1..Len(matches) : results[i] <=> MatchSucceeds(text, matches[i])

\* Each constraint is met by some occurrence of `contains`, no occurrence meets both.
SplitAcrossOccurrences(t, match) ==
    /\ IsNotNone(match.after) /\ IsNotNone(match.before)
    /\ \E c \in 0..Len(t) :
          OccurrenceSatisfies(t, [match EXCEPT !.before = NoneStr], c)
    /\ \E c \in 0..Len(t) :
          OccurrenceSatisfies(t, [match EXCEPT !.after = NoneStr], c)
    /\ ~MatchSucceeds(t, match)

\* C5 witness: `contains` occurs twice, each constraint is met by one of the
\* occurrences, none meets both, and the match fails.
C5_Witness ==
    /\ containsPc = "done"
    /\ Len(matches) = 1
    /\ Len(matches[1].contains) >= 1
    /\ SplitAcrossOccurrences(text, matches[1])
    /\ ~results[1]

\* C6: mode AND returns true exactly when every match of the list succeeds,
\* mode OR exactly when at least one does.
C6_ModeCombines ==
    containsPc = "done" =>
        /\ mode = "and" =>
              (containsResult <=> \A i \in 1..Len(matches) : MatchSucceeds(text, matches[i]))
        /\ mode = "or" =>
              (containsResult <=> \E i \in 1..Len(matches) : MatchSucceeds(text, matches[i]))

\* C6 witness: two matches, one satisfiable and one not, so AND and OR differ.
C6_Witness ==
    /\ containsPc = "done"
    /\ Len(matches) = 2
    /\ mode = "or"
    /\ MatchSucceeds(text, matches[1])
    /\ ~MatchSucceeds(text, matches[2])
    /\ containsResult


(***************************************************************************)
(* Response Extractor: find_code_blocks_with_language, and the regular     *)
(* expression it scans with, on token sequences.                           *)
(***************************************************************************)
SpaceTab == {" ", "\t"}
Whitespace == {" ", "\t", "\n"}
\* the token of the grave accent character (U+0060)
Backtick == "U+0060"
Fence == <<Backtick, Backtick, Backtick>>

Min(S) == CHOOSE x \in S : \A y \in S : x <= y

\* 1-based index of the first token at or after i that is not in S; Len + 1 if none
SkipIn(s, i, S) ==
    LET stops == {j \in i..Len(s) : s[j] \notin S}
    IN  IF stops = {} THEN Len(s) + 1 ELSE Min(stops)

\* 1-based index of the first token at or after i that is in S; Len + 1 if none
SkipNotIn(s, i, S) ==
    LET stops == {j \in i..Len(s) : s[j] \in S}
    IN  IF stops = {} THEN Len(s) + 1 ELSE Min(stops)

\* the literal fence at the 1-based index i
FenceAt(s, i) == OccursAt(s, Fence, i - 1)

NoBlock == [ok |-> FALSE, lang |-> <<>>, code |-> <<>>, end |-> 0]

\* One attempt of the pattern FENCE[ \t]*(\S*)[ \t]*\n([\s\S]*?)FENCE at the 1-based
\* index i.  The three classes before the body are disjoint, so the greedy
\* runs leave the matcher nothing to give back; the body is lazy and ends at
\* the first fence after the tag line.
MatchBlockAt(s, i) ==
    IF ~FenceAt(s, i) THEN NoBlock
    ELSE LET tagStart == SkipIn(s, i + 3, SpaceTab)
             tagEnd == SkipNotIn(s, tagStart, Whitespace)
             lineEnd == SkipIn(s, tagEnd, SpaceTab)
         IN  IF lineEnd > Len(s) \/ s[lineEnd] # "\n" THEN NoBlock
             ELSE LET close == Find(s, Fence, lineEnd)
                  IN  IF close = -1 THEN NoBlock
                      ELSE [ok |-> TRUE,
                            lang |-> Slice(s, tagStart - 1, tagEnd - 1),
                            code |-> Slice(s, lineEnd, close),
                            end |-> close + 4]

RECURSIVE FindAllFrom(_, _)
\* re.findall: leftmost matches, each search resuming where the last match ended
FindAllFrom(s, i) ==
    IF i > Len(s) THEN <<>>
    ELSE LET m == MatchBlockAt(s, i)
         IN  IF m.ok THEN <<[lang |-> m.lang, code |-> m.code]>> \o FindAllFrom(s, m.end)
             ELSE FindAllFrom(s, i + 1)

\* re.findall(pattern, markdown): the (language, code) tuples
RegexFindAll(markdown) == FindAllFrom(markdown, 1)

\* str.strip()
Strip(s) ==
    LET first == SkipIn(s, 1, Whitespace)
    IN  IF first > Len(s) THEN <<>>
        ELSE LET last == CHOOSE j \in first..Len(s) :
                            /\ s[j] \notin Whitespace
                            /\ \A n \in (j + 1)..Len(s) : s[n] \in Whitespace
             IN  SubSeq(s, first, last)

\* the Python test: sub in s
IsIn(sub, s) == Find(s, sub, 0) # -1

\* first_block_content
FirstBlockContent(ms) == Strip(ms[1].code)

\* the later block as written, without strip()
LaterBlockRaw(ms, i) == ms[i].code
\* code.strip() of the later block the loop is at
LaterBlockContent(ms, i) == Strip(ms[i].code)

RECURSIVE FilterLaterBlocks(_, _)
\* the loop over matches[1:]
FilterLaterBlocks(ms, i) ==
    IF i > Len(ms) THEN <<>>
    ELSE IF ~IsIn(LaterBlockContent(ms, i), FirstBlockContent(ms))
        THEN <<ms[i]>> \o FilterLaterBlocks(ms, i + 1)
    ELSE FilterLaterBlocks(ms, i + 1)

find_code_blocks_with_language(markdown) ==
    LET ms == RegexFindAll(markdown)
    IN  IF Len(ms) = 0 THEN <<>>
        ELSE <<ms[1]>> \o FilterLaterBlocks(ms, 2)

(***************************************************************************)
(* remove_rust_main_function.  Tokens of Rust text: words, "#[", "]", "(", *)
(* ")", "{", "}", "->", "<", ">", ":", ",", the double quote, whitespace.  *)
(***************************************************************************)
\* tokens made only of characters of the class [\w:<,>\(\)\[\]\s]
ReturnTypeClass ==
    {"fn", "main", "async", "example", "1", "2", "T", "let", "import", "Foundation",
     "func", "function", "Result", ":", "<", ",", ">", "(", ")", "[", "]"} \cup Whitespace

\* fn\s+main\s*\(\s*\)\s*(?:->\s*[\w:<,>\(\)\[\]\s]+)?\s*\{  at the 1-based index
\* i: the index just after the opening brace, or 0.
SignatureEnd(s, i) ==
    IF ~(i <= Len(s) /\ s[i] = "fn") THEN 0
    ELSE LET a == SkipIn(s, i + 1, Whitespace)
         IN  IF a = i + 1 \/ a > Len(s) \/ s[a] # "main" THEN 0
             ELSE LET b == SkipIn(s, a + 1, Whitespace)
                  IN  IF b > Len(s) \/ s[b] # "(" THEN 0
                      ELSE LET c == SkipIn(s, b + 1, Whitespace)
                           IN  IF c > Len(s) \/ s[c] # ")" THEN 0
                               ELSE LET d == SkipIn(s, c + 1, Whitespace)
                                    IN  IF d <= Len(s) /\ s[d] = "{" THEN d + 1
                                        ELSE IF d <= Len(s) /\ s[d] = "->"
                                            THEN LET f == SkipIn(s, d + 1, ReturnTypeClass)
                                                 IN  IF f > d + 1 /\ f <= Len(s) /\ s[f] = "{"
                                                     THEN f + 1 ELSE 0
                                        ELSE 0

\* (?:async\s+)? and then the signature
AsyncSignatureEnd(s, i) ==
    IF i <= Len(s) /\ s[i] = "async"
    THEN LET a == SkipIn(s, i + 1, Whitespace)
         IN  IF a = i + 1 THEN 0 ELSE SignatureEnd(s, a)
    ELSE SignatureEnd(s, i)

RECURSIVE AttributesEnd(_, _)
RECURSIVE FirstAttributeEnd(_, _)
\* (?:\#\[.*?\]\s*)* and then the rest, at the 1-based index i.  The star is
\* greedy: another attribute is tried first; its lazy .*? ends at the first "]"
\* from which the rest of the pattern matches.
AttributesEnd(s, i) ==
    IF i <= Len(s) /\ s[i] = "#["
    THEN FirstAttributeEnd(s, i + 1)
    ELSE AsyncSignatureEnd(s, i)

\* the candidates for the closing "]", from the 1-based index k on
FirstAttributeEnd(s, k) ==
    IF k > Len(s) THEN 0
    ELSE IF s[k] = "]"
        THEN LET r == AttributesEnd(s, SkipIn(s, k + 1, Whitespace))
             IN  IF r # 0 THEN r ELSE FirstAttributeEnd(s, k + 1)
    ELSE FirstAttributeEnd(s, k + 1)

RECURSIVE FindMainStarts(_, _)
\* pattern.finditer(code): <<start, end>> of every match as 0-based slice bounds,
\* end being the index just after the opening brace
FindMainStarts(s, i) ==
    IF i > Len(s) THEN <<>>
    ELSE LET e == AttributesEnd(s, i)
         IN  IF e # 0 THEN <<<<i - 1, e - 1>>>> \o FindMainStarts(s, e)
             ELSE FindMainStarts(s, i + 1)

RECURSIVE MatchingBrace(_, _, _)
\* the loop: while pos < len(code) and brace_count > 0; pos is 0-based
MatchingBrace(s, pos, brace_count) ==
    IF ~(pos < Len(s) /\ brace_count > 0) THEN pos
    ELSE IF s[pos + 1] = "{" THEN MatchingBrace(s, pos + 1, brace_count + 1)
    ELSE IF s[pos + 1] = "}" THEN MatchingBrace(s, pos + 1, brace_count - 1)
    ELSE MatchingBrace(s, pos + 1, brace_count)

\* code[a:b]: empty when b <= a
PySlice(s, a, b) == IF b <= a THEN <<>> ELSE SubSeq(s, a + 1, b)

RECURSIVE RemoveMatches(_, _, _, _)
\* the loop over the matches and the final append: the kept text
RemoveMatches(s, ms, i, last_end) ==
    IF i > Len(ms) THEN PySlice(s, last_end, Len(s))
    ELSE PySlice(s, last_end, ms[i][1])
         \o RemoveMatches(s, ms, i + 1, MatchingBrace(s, ms[i][2], 1))

remove_rust_main_function(s) ==
    LET ms == FindMainStarts(s, 1)
    IN  IF ms = <<>> THEN s ELSE RemoveMatches(s, ms, 1, 0)

(***************************************************************************)
(* query_code of each adapter.                                             *)
(***************************************************************************)
Languages == {"rust", "swift", "typescript", "python", "php"}

\* str.lower() of a token
LowerToken(t) ==
    CASE t = "Python" -> "python"
      [] t = "PY" -> "py"
      [] t = "TypeScript" -> "typescript"
      [] t = "TS" -> "ts"
      [] t = "Rust" -> "rust"
      [] t = "RS" -> "rs"
      [] t = "Swift" -> "swift"
      [] t = "PHP" -> "php"
      [] OTHER -> t

\* lang.lower()
Lower(s) == [i \in 1..Len(s) |-> LowerToken(s[i])]

\* the list each adapter tests lang.lower() against
AcceptedTags(l) ==
    CASE l = "rust" -> {<<"rust">>, <<"rs">>}
      [] l = "swift" -> {<<"swift">>}
      [] l = "typescript" -> {<<"typescript">>, <<"ts">>}
      [] l = "python" -> {<<"python">>, <<"py">>}
      [] l = "php" -> {<<"php">>}

\* the tag test without .lower()
TagAcceptedExact(l, tag) == tag \in AcceptedTags(l)
TagAccepted(l, tag) == Lower(tag) \in AcceptedTags(l)

RECURSIVE JoinNewline(_)
\* "\n".join(parts)
JoinNewline(parts) ==
    IF parts = <<>> THEN <<>>
    ELSE IF Len(parts) = 1 THEN parts[1]
    ELSE parts[1] \o <<"\n">> \o JoinNewline(Tail(parts))

RECURSIVE AcceptedCode(_, _)
\* [code for lang, code in code_blocks if lang.lower() in [...]]
AcceptedCode(l, blocks) ==
    IF blocks = <<>> THEN <<>>
    ELSE IF TagAccepted(l, blocks[1].lang)
        THEN <<blocks[1].code>> \o AcceptedCode(l, Tail(blocks))
    ELSE AcceptedCode(l, Tail(blocks))

FnMain == <<"fn", " ", "main">>
FuncExample == <<"func", " ", "example">>
ImportFoundation == <<"import", " ", "Foundation">>
AtMainLine == <<"@main", "\n">>

\* Rust: block 0 loses its fn main when block 1 holds "fn main"
RustBlocks(blocks) ==
    IF Len(blocks) >= 2 /\ Find(blocks[2].code, FnMain, 0) # -1
    THEN [blocks EXCEPT ![1].code = remove_rust_main_function(blocks[1].code)]
    ELSE blocks

RECURSIVE Replace(_, _, _)
\* str.replace(old, new): every non-overlapping occurrence, left to right
Replace(s, old, new) ==
    LET pos == Find(s, old, 0)
    IN  IF pos = -1 THEN s
        ELSE PySlice(s, 0, pos) \o new
             \o Replace(PySlice(s, pos + Len(old), Len(s)), old, new)

\* Swift with matches_func: only the blocks that hold "func example"
SwiftBlocks(blocks, mf) ==
    IF mf THEN SelectSeq(blocks, LAMBDA b : Find(b.code, FuncExample, 0) # -1)
    ELSE blocks

\* Swift: the import is prepended when missing, "@main\n" becomes "\n"
SwiftPost(c) ==
    LET withImport ==
            IF Find(c, ImportFoundation, 0) = -1
            THEN ImportFoundation \o <<"\n", "\n">> \o c
            ELSE c
    IN  IF Find(withImport, AtMainLine, 0) > -1
        THEN Replace(withImport, AtMainLine, <<"\n">>)
        ELSE withImport

\* the code text of query_code for a non-empty response
QueryCodeOf(l, mf, resp) ==
    LET blocks == find_code_blocks_with_language(resp)
    IN  CASE l = "rust" -> JoinNewline(AcceptedCode(l, RustBlocks(blocks)))
          [] l = "swift" -> SwiftPost(JoinNewline(AcceptedCode(l, SwiftBlocks(blocks, mf))))
          [] OTHER -> JoinNewline(AcceptedCode(l, blocks))

(***************************************************************************)
(* The responses query_code is applied to: optional prose, then fenced     *)
(* blocks, each written as fence, tag, newline, body, fence, newline.      *)
(***************************************************************************)
MaxBlocks == 2

\* the tag of a language as models also spell it
CapsTag(l) ==
    CASE l = "rust" -> <<"Rust">>
      [] l = "swift" -> <<"Swift">>
      [] l = "typescript" -> <<"TS">>
      [] l = "python" -> <<"PY">>
      [] l = "php" -> <<"PHP">>

ResponseTags(l) == AcceptedTags(l) \cup {CapsTag(l), <<"text">>, <<>>}

GenericBodies ==
    { <<"1", "\n">>,
      <<"2", "\n">>,
      <<"\n", "1", "\n", "2", "\n">>,
      <<>> }

RustBodies ==
    { <<"1", "\n", "fn", " ", "main", "(", ")", " ", "{", "2", "}", "\n">>,
      <<Backtick, Backtick, "fn", " ", "main", "(", ")", "{", "}", Backtick, "1", "\n">> }

SwiftBodies ==
    { <<"@main", "@main", "\n", "\n">>,
      <<"import", " ", "Foundation", "\n", "func", " ", "example", "\n">> }

ResponseBodies(l) ==
    GenericBodies \cup (CASE l = "rust" -> RustBodies
                          [] l = "swift" -> SwiftBodies
                          [] OTHER -> {})

ResponseBlocks(l) == [lang : ResponseTags(l), code : ResponseBodies(l)]

Proses == {<<>>, <<"1", "\n">>}

RECURSIVE Markdown(_)
\* the text of a response that holds the given fenced blocks
Markdown(blocks) ==
    IF blocks = <<>> THEN <<>>
    ELSE Fence \o blocks[1].lang \o <<"\n">> \o blocks[1].code \o Fence \o <<"\n">>
         \o Markdown(Tail(blocks))

\* the text the produced code is wrapped in to extract it again: one fence
\* tagged with the target language, closed right after the code
Rewrap(l, c) == Fence \o <<l>> \o <<"\n">> \o c \o Fence

QueryInit ==
    /\ MainIdle
    /\ StringIdle
    /\ EntryIdle
    /\ ProviderIdle
    /\ DbIdle
    /\ JsonIdle
    /\ ContainsIdle
    /\ ExecIdle
    /\ CaptureIdle
    /\ lang \in Languages
    /\ matches_func \in (IF lang = "swift" THEN BOOLEAN ELSE {FALSE})
    /\ fenced_blocks \in SeqsUpTo(ResponseBlocks(lang), MaxBlocks)
    /\ \E prose \in Proses : response = prose \o Markdown(fenced_blocks)
    /\ code_blocks = <<>>
    /\ code = <<>>
    /\ rewrapped = <<>>
    /\ code_again = <<>>
    /\ queryPc = "call"

\* query_code on an empty response: `if not response: return None`
QueryNone ==
    /\ queryPc = "call"
    /\ response = <<>>
    /\ queryPc' = "none"
    /\ UNCHANGED <<lang, matches_func, fenced_blocks, response, code_blocks, code,
                   rewrapped, code_again, notQueryVars>>

\* query_code on a non-empty response
QueryCode ==
    /\ queryPc = "call"
    /\ response # <<>>
    /\ code_blocks' = find_code_blocks_with_language(response)
    /\ code' = QueryCodeOf(lang, matches_func, response)
    /\ queryPc' = "extracted"
    /\ UNCHANGED <<lang, matches_func, fenced_blocks, response, rewrapped, code_again,
                   notQueryVars>>

\* query_code on the produced code wrapped in one fence
ReExtract ==
    /\ queryPc = "extracted"
    /\ rewrapped' = Rewrap(lang, code)
    /\ code_again' = QueryCodeOf(lang, matches_func, Rewrap(lang, code))
    /\ queryPc' = "again"
    /\ UNCHANGED <<lang, matches_func, fenced_blocks, response, code_blocks, code,
                   notQueryVars>>

QueryNext == QueryNone \/ QueryCode \/ ReExtract

SpecQuery == QueryInit /\ [][QueryNext]_vars

(***************************************************************************)
(* Claims about the Response Extractor                                     *)
(***************************************************************************)
\* sub occurs in s as a run of adjacent tokens
IsSubstring(sub, s) ==
    \E k \in 0..(Len(s) - Len(sub)) : \A j \in 1..Len(sub) : s[k + j] = sub[j]

\* s without its leading and trailing whitespace
Trimmed(s) ==
    LET inner == {j \in 1..Len(s) : s[j] \notin Whitespace}
    IN  IF inner = {} THEN <<>>
        ELSE SubSeq(s, Min(inner), CHOOSE j \in inner : \A n \in inner : n <= j)

\* the indices of the blocks written into the response that are to survive
SurvivingIndices ==
    {i \in 1..Len(fenced_blocks) :
        \/ i = 1
        \/ ~IsSubstring(Trimmed(fenced_blocks[i].code), Trimmed(fenced_blocks[1].code))}

\* the j-th surviving index in order of appearance
NthSurviving(j) ==
    CHOOSE i \in SurvivingIndices : Cardinality({k \in SurvivingIndices : k <= i}) = j

\* C7: find_code_blocks_with_language keeps the first fenced block always,
\* drops every later block whose trimmed body is a substring of the trimmed
\* body of the first block, keeps every other later block whatever its tag,
\* and returns the kept blocks in their order of appearance.
C7_FirstKeptLaterDeduplicated ==
    queryPc \in {"extracted", "again"} =>
        /\ Len(code_blocks) = Cardinality(SurvivingIndices)
        /\ \A j \in 1..Len(code_blocks) : code_blocks[j] = fenced_blocks[NthSurviving(j)]

\* C7 witness: two blocks were written, the second with another tag and a body
\* that is no part of the first, and both came back in order.
C7_Witness ==
    /\ queryPc = "extracted"
    /\ Len(fenced_blocks) = 2
    /\ Len(code_blocks) = 2
    /\ code_blocks[1].lang # code_blocks[2].lang
    /\ code_blocks[1].code # <<>>
    /\ code_blocks[2].code # <<>>
    /\ ~IsSubstring(Trimmed(code_blocks[2].code), Trimmed(code_blocks[1].code))

\* a later block was dropped as an excerpt of the first
C7_DroppedWitness ==
    /\ queryPc = "extracted"
    /\ Len(fenced_blocks) = 2
    /\ Len(code_blocks) = 1
    /\ fenced_blocks[2].code # <<>>
    /\ fenced_blocks[2].code # fenced_blocks[1].code

\* C8: extraction is idempotent: the text query_code produced, wrapped in one
\* fence tagged with the target language and extracted again, is the same text.
C8_ReExtractionIdempotent ==
    queryPc = "again" => code_again = code

\* C8 for the produced texts that hold no fence and no line ending in @main:
\* extracting them again changes nothing, in every adapter.
C8_IdempotentOnPlainText ==
    (/\ queryPc = "again"
     /\ ~IsSubstring(Fence, code)
     /\ ~IsSubstring(AtMainLine, code)) => code_again = code

\* the spellings of the tags of a language the adapters accept
TagSpellings(l) ==
    CASE l = "rust" -> {<<"rust">>, <<"rs">>, <<"Rust">>, <<"RS">>}
      [] l = "swift" -> {<<"swift">>, <<"Swift">>}
      [] l = "typescript" -> {<<"typescript">>, <<"ts">>, <<"TypeScript">>, <<"TS">>}
      [] l = "python" -> {<<"python">>, <<"py">>, <<"Python">>, <<"PY">>}
      [] l = "php" -> {<<"php">>, <<"PHP">>}

\* the surviving blocks whose tag matches the target language
MatchingBlocks == SelectSeq(code_blocks, LAMBDA b : b.lang \in TagSpellings(lang))

RECURSIVE JoinedUpTo(_, _)
\* the bodies of the first n of the blocks, joined by single newlines
JoinedUpTo(blocks, n) ==
    IF n = 0 THEN <<>>
    ELSE IF n = 1 THEN blocks[1].code
    ELSE JoinedUpTo(blocks, n - 1) \o <<"\n">> \o blocks[n].code

JoinedMatchingBodies == JoinedUpTo(MatchingBlocks, Len(MatchingBlocks))

\* C10: the source text of query_code is exactly the bodies of the surviving
\* blocks whose tag matches the target language, case-insensitively, in order,
\* joined by a single newline, in every adapter.
C10_CodeIsJoinedMatchingBodies ==
    queryPc \in {"extracted", "again"} => code = JoinedMatchingBodies

\* the cases in which an adapter adds nothing to the join: TypeScript, Python
\* and PHP always; Rust unless the second surviving block holds "fn main";
\* Swift when no block is filtered for lacking "func example", the joined text
\* holds "import Foundation" and holds no "@main" followed by a newline.
PlainJoinCase ==
    CASE lang = "rust" ->
            ~(Len(code_blocks) >= 2 /\ IsSubstring(FnMain, code_blocks[2].code))
      [] lang = "swift" ->
            /\ matches_func =>
                   \A i \in 1..Len(code_blocks) : IsSubstring(FuncExample, code_blocks[i].code)
            /\ IsSubstring(ImportFoundation, JoinedMatchingBodies)
            /\ ~IsSubstring(AtMainLine, JoinedMatchingBodies)
      [] OTHER -> TRUE

\* C10, amended: in the TypeScript, Python and PHP adapters, in the Rust
\* adapter unless the second surviving block holds "fn main", and in the Swift
\* adapter when the joined text already holds "import Foundation", holds no
\* "@main" line and no block is filtered out for lacking "func example", the
\* source text is exactly the bodies of the surviving blocks whose tag matches
\* the target language case-insensitively, in order, joined by single newlines.
C10_PlainJoinIsMatchingBodies ==
    (queryPc \in {"extracted", "again"} /\ PlainJoinCase) => code = JoinedMatchingBodies

\* C10 witness: two surviving blocks with matching tags, one of them spelled
\* in capitals, and the code is their bodies joined by a newline.
C10_Witness ==
    /\ queryPc = "extracted"
    /\ PlainJoinCase
    /\ Len(MatchingBlocks) = 2
    /\ \E i \in 1..2 : MatchingBlocks[i].lang = CapsTag(lang)
    /\ MatchingBlocks[1].code # <<>>
    /\ MatchingBlocks[2].code # <<>>
    /\ code = MatchingBlocks[1].code \o <<"\n">> \o MatchingBlocks[2].code

\* a block with a foreign tag stands between nothing and the result: it is
\* among the surviving blocks and the code holds the matching body only
C10_ForeignTagWitness ==
    /\ queryPc = "extracted"
    /\ PlainJoinCase
    /\ Len(code_blocks) = 2
    /\ Len(MatchingBlocks) = 1
    /\ code = MatchingBlocks[1].code
    /\ code # <<>>

(***************************************************************************)
(* execute_capture: run_rust_project_with_output,                          *)
(* run_swift_project_with_output, run_typescript_project_with_output,      *)
(* run_python_script and run_php_script, each one subprocess.run call, on  *)
(* a clock that counts seconds.                                            *)
(***************************************************************************)
\* timeout=60
ExecTimeout == 60
\* how far the clock is followed
MaxClock == 62

\* the timeout argument of subprocess.run in the adapter, as an optional
\* value; run_php_script passes none
CaptureTimeout(l) == IF l = "php" THEN <<>> ELSE <<ExecTimeout>>

\* the programs run: one that never exits, and those that exit with some
\* standard error text and some return code
Programs ==
    {[exits |-> FALSE, stderr |-> "empty", returncode |-> 0]}
    \cup [exits : {TRUE}, stderr : {"empty", "warning", "error"}, returncode : {0, 1}]

\* whether the adapter reports the finished process as a failure
CaptureFails(l, prog) ==
    CASE l = "python" -> prog.stderr # "empty"
      [] l = "php" -> prog.returncode # 0
      [] OTHER -> prog.stderr = "error"

CaptureInit ==
    /\ MainIdle
    /\ StringIdle
    /\ EntryIdle
    /\ ProviderIdle
    /\ DbIdle
    /\ JsonIdle
    /\ ContainsIdle
    /\ QueryIdle
    /\ ExecIdle
    /\ capLang \in Languages
    /\ program \in Programs
    /\ capClock = 0
    /\ capAlive = FALSE
    /\ capPc = "call"
    /\ capSuccess = FALSE
    /\ capErrors = "none"

\* subprocess.run starts the child
CapStart ==
    /\ capPc = "call"
    /\ capAlive' = TRUE
    /\ capPc' = "waiting"
    /\ UNCHANGED <<capLang, program, capClock, capSuccess, capErrors, notCaptureVars>>

\* a second passes while subprocess.run waits; with a timeout the wait ends
\* at the timeout
CapTick ==
    /\ capPc = "waiting"
    /\ capClock < MaxClock
    /\ IsNotNone(CaptureTimeout(capLang)) => capClock < Get(CaptureTimeout(capLang))
    /\ capClock' = capClock + 1
    /\ UNCHANGED <<capLang, program, capAlive, capPc, capSuccess, capErrors, notCaptureVars>>

\* the child exits by itself
ProgramExits ==
    /\ capPc = "waiting"
    /\ capAlive
    /\ program.exits
    /\ capAlive' = FALSE
    /\ UNCHANGED <<capLang, program, capClock, capPc, capSuccess, capErrors, notCaptureVars>>

\* subprocess.run returns the finished process and the adapter builds the Result
CapReturn ==
    /\ capPc = "waiting"
    /\ ~capAlive
    /\ capSuccess' = ~CaptureFails(capLang, program)
    /\ capErrors' = IF CaptureFails(capLang, program) THEN "stderr" ELSE "stdout"
    /\ capPc' = "done"
    /\ UNCHANGED <<capLang, program, capClock, capAlive, notCaptureVars>>

\* the timeout elapses: subprocess.run kills the child and raises
\* TimeoutExpired, which the adapter turns into a Result
CapTimeout ==
    /\ capPc = "waiting"
    /\ capAlive
    /\ IsNotNone(CaptureTimeout(capLang))
    /\ capClock = Get(CaptureTimeout(capLang))
    /\ capAlive' = FALSE
    /\ capSuccess' = FALSE
    /\ capErrors' = "Execution timed out"
    /\ capPc' = "done"
    /\ UNCHANGED <<capLang, program, capClock, notCaptureVars>>

CaptureNext == CapStart \/ CapTick \/ ProgramExits \/ CapReturn \/ CapTimeout

SpecCapture == CaptureInit /\ [][CaptureNext]_vars

\* C2: in every adapter, execute_capture on a program that never exits ends
\* at the timeout: once the timeout has passed the call has returned a failed
\* Result that mentions the timeout, and the process is not alive.
C2_NeverExitingProgramIsKilled ==
    (capPc # "idle" /\ ~program.exits /\ capClock > ExecTimeout) =>
        /\ capPc = "done"
        /\ ~capAlive
        /\ ~capSuccess
        /\ capErrors = "Execution timed out"

\* C2 for the adapters that pass timeout=60: a call that is still waiting has
\* not passed the timeout, and a never-exiting program yields the timeout Result.
C2_TimeoutAdaptersKill ==
    (capPc # "idle" /\ capLang # "php") =>
        /\ capPc = "waiting" => capClock <= ExecTimeout
        /\ (capPc = "done" /\ ~program.exits) =>
               (~capAlive /\ ~capSuccess /\ capErrors = "Execution timed out")

\* C20: execute_capture of every adapter reports a failure whenever the
\* process exits with a non-zero code, writes to standard error or times out,
\* and reports success only for a zero exit with empty standard error within
\* the timeout.
C20_SuccessOnlyForCleanExit ==
    capPc = "done" =>
        (capSuccess <=>
            /\ capErrors # "Execution timed out"
            /\ program.returncode = 0
            /\ program.stderr = "empty")

\* C20 where it holds in every adapter: a timeout is a failure, a clean exit
\* is a success, and a non-zero exit with an error on standard error is a failure.
C20_TimeoutAndErrorExitFail ==
    capPc = "done" =>
        /\ capErrors = "Execution timed out" => ~capSuccess
        /\ (/\ capErrors # "Execution timed out"
            /\ program.returncode = 0
            /\ program.stderr = "empty") => capSuccess
        /\ (program.returncode # 0 /\ program.stderr = "error") => ~capSuccess

(***************************************************************************)
(* One task attempt: Executor.call, the adapter operation it selects       *)
(* (exec_call, exec_check, exec_contains, exec_run) and, for a Run task,   *)
(* the worker thread and the server process.                               *)
(***************************************************************************)
TaskKinds == {"call", "check", "contains", "run"}

\* the members of Language, which Executor branches on
ExecutorLanguages == {"rust", "swift", "typescript", "python"}

\* the adapter operations that the source holds
AdapterOperations ==
    (Languages \X TaskKinds)
    \ {<<"typescript", "run">>, <<"swift", "contains">>, <<"python", "contains">>}

\* the kinds of TaskPayload
ExpectedKinds == {"str", "dict", "list"}

\* what a provider request ends in
ProviderOutcomes == {"response", "TimeoutError", "ValueError"}

FunctionExample == <<"function", " ", "example">>

\* source text that defines example, in the language of the adapter
ExampleBody(l) ==
    CASE l = "typescript" -> FunctionExample \o <<"\n">>
      [] l = "swift" -> FuncExample \o <<"\n">>
      [] l = "rust" -> <<"fn", " ", "example", "\n">>
      [] OTHER -> <<"example", "\n">>

\* the model responses of an attempt: empty, prose without a fence, one block
\* of another language, one block of the target language without and with
\* an example function
ExecResponses(l) ==
    { <<>>,
      <<"1", "\n">>,
      Markdown(<<[lang |-> <<"text">>, code |-> <<"1", "\n">>]>>),
      Markdown(<<[lang |-> <<l>>, code |-> <<"1", "\n">>]>>),
      Markdown(<<[lang |-> <<l>>, code |-> ExampleBody(l)]>>) }

\* task.matches and task.mode of the Contains task
TaskMatches == <<[contains |-> <<"1">>, before |-> NoneStr, after |-> NoneStr]>>

taskVars == <<language, task_kind, expected_output>>
stageVars == <<written, checked, executed>>
resultVars == <<returned, success, errors, tokens>>
serverVars == <<workerPc, process, handle, serverAlive, termSent, probes, probeOutcome>>

\* return TaskResult(run, success, errors, ..., tokens); errors is the list
\* of messages, empty when the operation passes "none"
Return(s, e, t) ==
    /\ callPc' = "done"
    /\ returned' = "TaskResult"
    /\ success' = s
    /\ errors' = IF e = "none" THEN <<>> ELSE <<e>>
    /\ tokens' = t

\* return TaskResult(..., errors=[e, detail], ...)
ReturnWith(s, e, detail, t) ==
    /\ callPc' = "done"
    /\ returned' = "TaskResult"
    /\ success' = s
    /\ errors' = <<e, detail>>
    /\ tokens' = t

\* an exception leaves the adapter operation and Executor.call
Raise(e) ==
    /\ callPc' = "done"
    /\ returned' = "exception"
    /\ errors' = <<e>>
    /\ UNCHANGED <<success, tokens>>

\* the attempt goes on
Goto(pc) ==
    /\ callPc' = pc
    /\ UNCHANGED resultVars

ExecInit ==
    /\ MainIdle
    /\ StringIdle
    /\ EntryIdle
    /\ ProviderIdle
    /\ DbIdle
    /\ JsonIdle
    /\ ContainsIdle
    /\ QueryIdle
    /\ CaptureIdle
    /\ language \in Languages
    /\ task_kind \in TaskKinds
    /\ expected_output \in ExpectedKinds
    /\ llm_response = <<>>
    /\ source_code = <<>>
    /\ callPc = "call"
    /\ written = FALSE
    /\ checked = FALSE
    /\ executed = FALSE
    /\ returned = "none"
    /\ success = FALSE
    /\ errors = <<>>
    /\ tokens = "unset"
    /\ workerPc = "idle"
    /\ process = None
    /\ handle = None
    /\ serverAlive = FALSE
    /\ termSent = FALSE
    /\ probes = 0
    /\ probeOutcome = "none"
    /\ operation = <<>>
    /\ usage = "none"
    /\ check_result = "none"
    /\ capture_result = "none"

\* Executor.call and Executor._exec_*: the isinstance and language branches.
\* A language without a branch ends in ValueError, a call of an operation the
\* adapter module does not hold in AttributeError.
Dispatch ==
    /\ callPc = "call"
    /\ IF language \notin ExecutorLanguages
       THEN Raise("Unsupported language") /\ UNCHANGED operation
       ELSE IF <<language, task_kind>> \notin AdapterOperations
           THEN Raise("AttributeError") /\ UNCHANGED operation
       ELSE Goto("query") /\ operation' = <<language, task_kind>>
    /\ UNCHANGED <<usage, check_result, capture_result>>
    /\ UNCHANGED <<taskVars, llm_response, source_code, stageVars, serverVars, notExecVars>>

\* exec_php.exec_*: Language has no PHP member and Executor no PHP branch,
\* the operations of the PHP adapter are entered directly
CallAdapter ==
    /\ callPc = "call"
    /\ language = "php"
    /\ Goto("query")
    /\ operation' = <<language, task_kind>>
    /\ UNCHANGED <<usage, check_result, capture_result>>
    /\ UNCHANGED <<taskVars, llm_response, source_code, stageVars, serverVars, notExecVars>>

\* a verdict that does not look at the response text
ContainsVerdictIgnoringText(r) ==
    IF r = <<>> THEN Return(FALSE, "Failed to query code", "counted")
    ELSE Return(TRUE, "none", "counted")

\* exec_contains after the provider answered with r
ContainsVerdict(r) ==
    IF r = <<>> THEN Return(FALSE, "Failed to query code", "counted")
    ELSE LET found == CombineResults(MatchResults(r, TaskMatches), "and")
         IN  Return(found, IF found THEN "none" ELSE "Contains check failed", "counted")

\* the provider request and what the operation does with its outcome:
\* exec_contains calls request, the others query_code
Query ==
    /\ callPc = "query"
    /\ \E outcome \in ProviderOutcomes :
        \/ /\ outcome = "ValueError"
           /\ Return(FALSE, "ValueError", "zero")
           /\ UNCHANGED <<llm_response, source_code, usage>>
        \/ /\ outcome = "TimeoutError"
           /\ IF task_kind = "contains"
              THEN Raise("TimeoutError")
              ELSE Return(FALSE, "TimeoutError", "zero")
           /\ UNCHANGED <<llm_response, source_code, usage>>
        \/ /\ outcome = "response"
           /\ usage' = "returned"
           /\ \E r \in ExecResponses(language) :
                /\ llm_response' = r
                /\ IF task_kind = "contains"
                   THEN ContainsVerdict(r) /\ UNCHANGED source_code
                   ELSE IF r = <<>>
                       THEN Return(FALSE, "Failed to query code", "zero")
                            /\ UNCHANGED source_code
                   ELSE /\ source_code' =
                               QueryCodeOf(language,
                                           language = "swift" /\ task_kind = "call", r)
                        /\ Goto("materialize")
    /\ UNCHANGED <<operation, check_result, capture_result>>
    /\ UNCHANGED <<taskVars, stageVars, serverVars, notExecVars>>

\* the entry point is added (Call) and prepare_codebase writes the source
\* into the sandbox; the TypeScript exec_call first looks for the function
Materialize ==
    /\ callPc = "materialize"
    /\ IF language = "typescript" /\ task_kind = "call"
          /\ ~IsIn(FunctionExample, source_code)
       THEN /\ Return(FALSE, "No example function found in generated code", "counted")
            /\ UNCHANGED written
       ELSE /\ written' = TRUE
            /\ Goto("check")
    /\ UNCHANGED <<operation, usage, check_result, capture_result>>
    /\ UNCHANGED <<taskVars, llm_response, source_code, checked, executed, serverVars,
                   notExecVars>>

\* the static check whose Result is not looked at
StaticCheckIgnored ==
    /\ callPc = "check"
    /\ checked' = TRUE
    /\ \E pass \in BOOLEAN :
        /\ check_result' = IF pass THEN "pass" ELSE "fail"
        /\ IF task_kind = "check"
           THEN Return(pass, IF pass THEN "none" ELSE "check errors", "counted")
           ELSE IF task_kind = "call" THEN Goto("execute")
           ELSE Goto("start")
    /\ UNCHANGED <<operation, usage, capture_result>>
    /\ UNCHANGED <<taskVars, llm_response, source_code, written, executed, serverVars,
                   notExecVars>>

\* run_cargo_check / run_swift_check / run_tsc_check / run_pylint_check /
\* run_php_check and the branch on its Result
StaticCheck ==
    /\ callPc = "check"
    /\ checked' = TRUE
    /\ \E pass \in BOOLEAN :
        /\ check_result' = IF pass THEN "pass" ELSE "fail"
        /\ IF task_kind = "check"
           THEN Return(pass, IF pass THEN "none" ELSE "check errors", "counted")
           ELSE IF ~pass THEN Return(FALSE, "check errors", "counted")
           ELSE IF task_kind = "call" THEN Goto("execute")
           ELSE Goto("start")
    /\ UNCHANGED <<operation, usage, capture_result>>
    /\ UNCHANGED <<taskVars, llm_response, source_code, written, executed, serverVars,
                   notExecVars>>

\* exec_call: execute_capture of the program and the branch on its Result;
\* run_php_script does not return while the program runs
Execute ==
    /\ callPc = "execute"
    /\ executed' = TRUE
    /\ \E prog \in Programs :
        IF ~prog.exits
        THEN IF IsNotNone(CaptureTimeout(language))
             THEN Return(FALSE, "Failed to run", "counted") /\ capture_result' = "failed"
             ELSE Goto("hung") /\ UNCHANGED capture_result
        ELSE IF CaptureFails(language, prog)
            THEN Return(FALSE, "Failed to run", "counted") /\ capture_result' = "failed"
        ELSE Goto("compare") /\ capture_result' = "ok"
    /\ UNCHANGED <<operation, usage, check_result>>
    /\ UNCHANGED <<taskVars, llm_response, source_code, written, checked, serverVars,
                   notExecVars>>

\* exec_call: the comparison of the captured output with expected_output
Compare ==
    /\ callPc = "compare"
    /\ \E equal \in BOOLEAN, valid \in BOOLEAN :
        IF expected_output = "str" THEN Return(equal, "none", "counted")
        ELSE IF valid THEN Return(equal, "none", "counted")
        ELSE Return(FALSE, "Output string is not valid JSON", "counted")
    /\ UNCHANGED <<operation, usage, check_result, capture_result>>
    /\ UNCHANGED <<taskVars, llm_response, source_code, stageVars, serverVars, notExecVars>>

\* exec_run: the worker thread is started (run_rust_project,
\* run_swift_project, or the thread of the Python and PHP exec_run)
StartWorker ==
    /\ callPc = "start"
    /\ executed' = TRUE
    /\ workerPc' = "started"
    /\ Goto("grace")
    /\ UNCHANGED <<operation, usage, check_result, capture_result>>
    /\ UNCHANGED <<taskVars, llm_response, source_code, written, checked, process, handle,
                   serverAlive, termSent, probes, probeOutcome, notExecVars>>

\* the worker: Popen succeeds and publishes the process, or fails and
\* publishes nothing; the PHP worker then waits in communicate()
WorkerSpawn ==
    /\ workerPc = "started"
    /\ \E spawned \in BOOLEAN :
        IF spawned
        THEN /\ process' = "Popen"
             /\ serverAlive' = TRUE
             /\ workerPc' = IF language = "php" THEN "communicate" ELSE "finished"
        ELSE /\ workerPc' = "finished"
             /\ UNCHANGED <<process, serverAlive>>
    /\ UNCHANGED <<operation, usage, check_result, capture_result>>
    /\ UNCHANGED <<taskVars, llm_response, source_code, callPc, stageVars, resultVars,
                   handle, termSent, probes, probeOutcome, notExecVars>>

\* the server process exits by itself
ServerExits ==
    /\ serverAlive
    /\ serverAlive' = FALSE
    /\ UNCHANGED <<operation, usage, check_result, capture_result>>
    /\ UNCHANGED <<taskVars, llm_response, source_code, callPc, stageVars, resultVars,
                   workerPc, process, handle, termSent, probes, probeOutcome, notExecVars>>

\* the PHP worker: communicate() returns once the process has ended
WorkerCommunicateReturns ==
    /\ workerPc = "communicate"
    /\ ~serverAlive
    /\ workerPc' = "finished"
    /\ UNCHANGED <<operation, usage, check_result, capture_result>>
    /\ UNCHANGED <<taskVars, llm_response, source_code, callPc, stageVars, resultVars,
                   process, handle, serverAlive, termSent, probes, probeOutcome,
                   notExecVars>>

\* the caller has waited: thread.join(0.2), or sleep(0.5) in PHP.  It ends
\* whether or not the worker has spawned.  run_rust_project and
\* run_swift_project return the process as it is at that moment, and exec_run
\* gives up when it is None.
Grace ==
    /\ callPc = "grace"
    /\ IF language \in {"rust", "swift"}
       THEN /\ handle' = process
            /\ IF process = None
               THEN Return(FALSE, "Failed to run project", "counted")
               ELSE Goto("probe")
       ELSE /\ Goto("probe")
            /\ UNCHANGED handle
    /\ UNCHANGED <<operation, usage, check_result, capture_result>>
    /\ UNCHANGED <<taskVars, llm_response, source_code, stageVars, workerPc, process,
                   serverAlive, termSent, probes, probeOutcome, notExecVars>>

\* the probe with one more attempt after a failure
ProbeWithRetry ==
    /\ callPc = "probe"
    /\ probes' = probes + 1
    /\ \E outcome \in {"ok", "transport", "status"} :
        /\ probeOutcome' = outcome
        /\ IF language \in {"rust", "swift"}
           THEN IF outcome = "ok" THEN Goto("join")
                ELSE IF probes = 0 THEN Goto("probe")
                ELSE Return(FALSE, "Failed to make HTTP request", "counted")
           ELSE IF language = "python" THEN Goto("finally")
           ELSE Goto("phpjoin")
    /\ UNCHANGED <<operation, usage, check_result, capture_result>>
    /\ UNCHANGED <<taskVars, llm_response, source_code, stageVars, workerPc, process,
                   handle, serverAlive, termSent, notExecVars>>

\* requests.get(task.request) and raise_for_status(); the Rust and Swift
\* exec_run return from the except clause
Probe ==
    /\ callPc = "probe"
    /\ probes' = probes + 1
    /\ \E outcome \in {"ok", "transport", "status"} :
        /\ probeOutcome' = outcome
        /\ IF language \in {"rust", "swift"}
           THEN IF outcome = "ok" THEN Goto("join")
                ELSE Return(FALSE, "Failed to make HTTP request", "counted")
           ELSE IF language = "python" THEN Goto("finally")
           ELSE Goto("phpjoin")
    /\ UNCHANGED <<operation, usage, check_result, capture_result>>
    /\ UNCHANGED <<taskVars, llm_response, source_code, stageVars, workerPc, process,
                   handle, serverAlive, termSent, notExecVars>>

\* str(e) of the requests.RequestException of a failed probe
TransportErrorText(outcome) ==
    IF outcome = "status" THEN "HTTPError text" ELSE "ConnectionError text"

\* process.terminate(), and the wait or kill that follows it
Terminate ==
    /\ termSent' = TRUE
    /\ serverAlive' = FALSE

\* Rust and Swift exec_run after a successful probe: thread.join() and
\* process.terminate() on the handle that run_*_project returned
JoinTerminate ==
    /\ callPc = "join"
    /\ workerPc = "finished"
    /\ Terminate
    /\ Goto("compare_run")
    /\ UNCHANGED <<operation, usage, check_result, capture_result>>
    /\ UNCHANGED <<taskVars, llm_response, source_code, stageVars, workerPc, process,
                   handle, probes, probeOutcome, notExecVars>>

\* Python exec_run: the finally clause reads process, then the except clause
\* returns or the flow goes on
PyFinally ==
    /\ callPc = "finally"
    /\ IF process # None THEN Terminate ELSE UNCHANGED <<termSent, serverAlive>>
    /\ IF probeOutcome = "ok" THEN Goto("compare_run")
       ELSE Return(FALSE, "Failed to make HTTP request", "counted")
    /\ UNCHANGED <<operation, usage, check_result, capture_result>>
    /\ UNCHANGED <<taskVars, llm_response, source_code, stageVars, workerPc, process,
                   handle, probes, probeOutcome, notExecVars>>

\* PHP exec_run: thread.join(timeout=2), terminate when process is set, then
\* the branches on error and http_response
PhpJoin ==
    /\ callPc = "phpjoin"
    /\ IF process # None THEN Terminate ELSE UNCHANGED <<termSent, serverAlive>>
    /\ IF probeOutcome = "ok" THEN Goto("compare_run")
       ELSE ReturnWith(FALSE, "Failed to make HTTP request",
                       TransportErrorText(probeOutcome), "counted")
    /\ UNCHANGED <<operation, usage, check_result, capture_result>>
    /\ UNCHANGED <<taskVars, llm_response, source_code, stageVars, workerPc, process,
                   handle, probes, probeOutcome, notExecVars>>

\* exec_run: the comparison of the probe response with expected_output;
\* only the PHP exec_run catches what http_response.json() raises
CompareRun ==
    /\ callPc = "compare_run"
    /\ \E equal \in BOOLEAN, valid \in BOOLEAN :
        IF expected_output = "str" THEN Return(equal, "none", "counted")
        ELSE IF expected_output = "list"
            THEN Return(FALSE, "Invalid expected output type", "counted")
        ELSE IF valid THEN Return(equal, "none", "counted")
        ELSE IF language = "php" THEN Return(FALSE, "Invalid JSON response", "counted")
        ELSE Raise("JSONDecodeError")
    /\ UNCHANGED <<operation, usage, check_result, capture_result>>
    /\ UNCHANGED <<taskVars, llm_response, source_code, stageVars, serverVars, notExecVars>>

ExecNext ==
    \/ Dispatch
    \/ CallAdapter
    \/ Query
    \/ Materialize
    \/ StaticCheck
    \/ Execute
    \/ Compare
    \/ StartWorker
    \/ WorkerSpawn
    \/ ServerExits
    \/ WorkerCommunicateReturns
    \/ Grace
    \/ Probe
    \/ JoinTerminate
    \/ PyFinally
    \/ PhpJoin
    \/ CompareRun

SpecExec == ExecInit /\ [][ExecNext]_vars

(***************************************************************************)
(* Claims about one task attempt                                           *)
(***************************************************************************)
\* C1: in every Run attempt, once the worker has spawned the server process
\* the attempt does not return its TaskResult before a termination signal
\* has been sent to that process, whatever the probe came to.
C1_TerminatedBeforeReturn ==
    [][(/\ task_kind = "run"
        /\ returned = "none"
        /\ returned' = "TaskResult"
        /\ process # None) => termSent']_vars

\* C3: Executor.call returns a TaskResult for every task and every failure
\* kind; no failure leaves it as an exception.
C3_NoExceptionPropagates == returned # "exception"

\* no block of the target language among the blocks of the response
NoTargetBlock ==
    AcceptedCode(language, find_code_blocks_with_language(llm_response)) = <<>>

\* C9: when the response holds no fenced block, or none of the target
\* language, a Call, Check or Run attempt writes nothing into the sandbox,
\* runs no static check and executes nothing, and returns a failed TaskResult.
C9_NoCodeNoPipeline ==
    (/\ task_kind # "contains"
     /\ callPc \notin {"idle", "call", "query"}
     /\ usage = "returned"
     /\ NoTargetBlock) =>
        /\ ~written /\ ~checked /\ ~executed
        /\ callPc = "done" => (returned = "TaskResult" /\ ~success)

\* C9 for the empty response, where it holds
C9_EmptyResponseStops ==
    (/\ task_kind # "contains"
     /\ callPc \notin {"idle", "call", "query"}
     /\ usage = "returned"
     /\ llm_response = <<>>) =>
        /\ ~written /\ ~checked /\ ~executed
        /\ callPc = "done" /\ returned = "TaskResult" /\ ~success

\* the caller has started the server: the worker was started, and in the Rust
\* and Swift adapters run_*_project handed a process back after the grace period
ServerStarted ==
    /\ executed
    /\ language \in {"rust", "swift"} => handle # None

\* C14: a Run attempt issues at most one GET; exactly one when the static
\* check passed and the server was started; none when the query or the static
\* check failed.  A failed probe is not followed by another one.
C14_AtMostOneProbe ==
    task_kind = "run" =>
        /\ probes <= 1
        /\ (callPc = "done" /\ check_result = "pass" /\ ServerStarted) => probes = 1
        /\ (callPc = "done" /\ check_result # "pass") => probes = 0

\* a Run attempt has returned after its one probe failed
C14_Witness ==
    /\ task_kind = "run"
    /\ callPc = "done"
    /\ check_result = "pass"
    /\ ServerStarted
    /\ probeOutcome \in {"transport", "status"}
    /\ probes = 1

\* a Run attempt has returned after its static check failed, without a probe
C14_NoProbeWitness ==
    /\ task_kind = "run"
    /\ callPc = "done"
    /\ check_result = "fail"
    /\ probes = 0

\* C15: when the probe fails at transport level or with a non-2xx status, the
\* attempt returns a TaskResult with success false whose errors hold the text
\* of the transport error.
C15_FailedProbeRecordsTransportError ==
    (/\ task_kind = "run"
     /\ callPc = "done"
     /\ probeOutcome \in {"transport", "status"}) =>
        /\ returned = "TaskResult"
        /\ ~success
        /\ \E i \in 1..Len(errors) : errors[i] = TransportErrorText(probeOutcome)

\* C15 without the text: a failed probe gives a failed TaskResult, and the PHP
\* adapter records the text
C15_FailedProbeFails ==
    (/\ task_kind = "run"
     /\ callPc = "done"
     /\ probeOutcome \in {"transport", "status"}) =>
        /\ returned = "TaskResult"
        /\ ~success
        /\ errors[1] = "Failed to make HTTP request"
        /\ language = "php" => errors[2] = TransportErrorText(probeOutcome)

\* C16: for every task kind and every language, Executor.call enters the
\* operation of that kind in the adapter of that language, and it exists.
C16_DispatchTotal ==
    callPc \notin {"idle", "call"} =>
        /\ operation = <<language, task_kind>>
        /\ operation \in AdapterOperations

\* C16 for the languages Executor knows and the operations their adapters hold
C16_KnownOperationsDispatched ==
    (/\ callPc \notin {"idle", "call"}
     /\ language \in ExecutorLanguages
     /\ <<language, task_kind>> \in AdapterOperations) =>
        operation = <<language, task_kind>>

\* C17: whenever the provider returned token counts, the TaskResult of the
\* attempt carries them, the empty-response path included.
C17_TokenCountsCarried ==
    (callPc = "done" /\ returned = "TaskResult" /\ usage = "returned") =>
        tokens = "counted"

\* C17 for the non-empty responses, and for Contains tasks whatever the response
C17_CarriedUnlessEmptyResponse ==
    (/\ callPc = "done"
     /\ returned = "TaskResult"
     /\ usage = "returned"
     /\ llm_response # <<>> \/ task_kind = "contains") =>
        tokens = "counted"

\* C18: in a Call or Run attempt the stages come in the order materialize,
\* static check, execute, compare: nothing is checked that was not written,
\* nothing is executed (directly or as a server) unless the static check
\* passed, and the comparison is reached only after the execution (Call) or
\* the probe (Run) succeeded.
C18_StagesInOrderWithShortCircuit ==
    task_kind \in {"call", "run"} =>
        /\ checked => written
        /\ check_result # "none" => checked
        /\ executed => check_result = "pass"
        /\ workerPc # "idle" => check_result = "pass"
        /\ probes > 0 => executed
        /\ capture_result # "none" => executed
        /\ callPc \in {"compare", "compare_run"} =>
              IF task_kind = "call" THEN capture_result = "ok" ELSE probeOutcome = "ok"
        /\ (callPc = "done" /\ returned = "TaskResult" /\ success) =>
              IF task_kind = "call" THEN capture_result = "ok" ELSE probeOutcome = "ok"

\* a Call attempt is at the comparison after all three stages
C18_Witness ==
    /\ task_kind = "call"
    /\ callPc = "compare"
    /\ written /\ checked /\ executed
    /\ check_result = "pass"
    /\ capture_result = "ok"

\* a Run attempt stopped at the failed static check
C18_ShortCircuitWitness ==
    /\ task_kind = "run"
    /\ callPc = "done"
    /\ check_result = "fail"
    /\ ~executed
    /\ workerPc = "idle"

\* C19: a Check attempt executes nothing; a Contains attempt writes nothing,
\* checks nothing and spawns nothing, and its verdict is that of
\* check_contains_matches on the response text, the matches and the mode.
C19_CheckAndContainsFrame ==
    /\ task_kind = "check" =>
          /\ ~executed
          /\ workerPc = "idle" /\ process = None /\ probes = 0
          /\ capture_result = "none"
    /\ task_kind = "contains" =>
          /\ ~written /\ ~checked /\ ~executed
          /\ check_result = "none" /\ capture_result = "none"
          /\ workerPc = "idle" /\ process = None /\ probes = 0
          /\ (callPc = "done" /\ returned = "TaskResult" /\ usage = "returned") =>
                (success <=>
                    /\ llm_response # <<>>
                    /\ \A i \in 1..Len(TaskMatches) :
                          IsSubstring(TaskMatches[i].contains, llm_response))

\* a Contains attempt has returned its verdict on a response that holds the text
C19_Witness ==
    /\ task_kind = "contains"
    /\ callPc = "done"
    /\ returned = "TaskResult"
    /\ llm_response # <<>>
    /\ success

\* a Check attempt has returned after a static check that passed
C19_CheckWitness ==
    /\ task_kind = "check"
    /\ callPc = "done"
    /\ check_result = "pass"
    /\ success
    /\ ~executed

\* run_rust_project / run_swift_project has returned to exec_run
ProjectReturned ==
    /\ task_kind = "run"
    /\ language \in {"rust", "swift"}
    /\ executed
    /\ callPc # "grace"

\* C23: run_rust_project / run_swift_project returns only once the process
\* object exists: whenever the worker's spawn succeeds, the handle returned to
\* the caller is that process and is not null.
C23_HandleIsTheSpawnedProcess ==
    (ProjectReturned /\ process # None) => handle = process

\* A handle that is returned is the process the worker spawned.
C23_ReturnedHandleIsTheProcess ==
    (ProjectReturned /\ handle # None) => (handle = process /\ process = "Popen")

C23_Witness ==
    /\ ProjectReturned
    /\ handle = "Popen"
    /\ callPc = "probe"

\* the caller found no process handle after the grace period: exec_run of Rust
\* and Swift returned its failure, the finally clause of the Python exec_run
\* found process unset
ObservedNoHandle ==
    /\ task_kind = "run"
    /\ executed
    /\ callPc = "done"
    /\ ~termSent
    /\ \/ language \in {"rust", "swift"} /\ handle = None
       \/ language = "python" /\ probes = 1

\* C25: when the caller of a Run attempt has observed no process handle after
\* the grace period, the worker spawns no server process afterwards: no server
\* process is alive once the attempt has returned without terminating one.
C25_NoSpawnAfterNoHandle == ObservedNoHandle => ~serverAlive

\* The caller never returns with no handle when the worker had spawned before
\* the grace period ended: at the return the worker is still to spawn or has
\* failed to.
C25_NoHandleOnlyBeforeSpawn ==
    [][(/\ task_kind = "run"
        /\ language \in {"rust", "swift"}
        /\ callPc = "grace"
        /\ callPc' = "done") => (process = None /\ ~serverAlive)]_vars

C25_Witness ==
    /\ ObservedNoHandle
    /\ workerPc = "finished"
    /\ process = None

(***************************************************************************)
(* Rust Call task: remove_rust_main_function on the extracted code, then   *)
(* the entry point exec_call appends (src/exec_rust/exec_call.py 37-61).   *)
(***************************************************************************)
Quote == "\""

\* what comes before the entry point in the extracted code
MainHeads == {<<>>, <<"1", "\n">>}

\* signatures the pattern was written for, up to the opening brace
PlainSignature == <<"fn", " ", "main", "(", ")", " ", "{">>
AttributeAsyncSignature ==
    <<"#[", "tokio::main", "]", "\n", "async", " ", "fn", " ", "main", "(", ")", " ", "{">>
ReturnTypeSignature ==
    <<"fn", " ", "main", "(", ")", " ", "->", " ", "Result", "<", "(", ")", ",", " ",
      "T", ">", " ", "{">>
\* a return type with a character outside [\w:<,>\(\)\[\]\s]
ReferenceReturnSignature ==
    <<"fn", " ", "main", "(", ")", " ", "->", " ", "Result", "<", "(", ")", ",", " ",
      "&", "T", ">", " ", "{">>

PatternSignatures == {PlainSignature, AttributeAsyncSignature, ReturnTypeSignature}
MainSignatures == PatternSignatures \cup {ReferenceReturnSignature}

\* bodies, closing brace included
SimpleBody == <<" ", "2", " ", "}">>
NestedBlockBody == <<" ", "{", " ", "2", " ", "}", " ", "}">>
StringBraceBody == <<" ", "let", " ", "1", " ", "=", " ", Quote, "}", Quote, ";", " ", "}">>
NestedMainBody == <<" ", "fn", " ", "main", "(", ")", " ", "{", "}", " ", "}">>
DeepNestedBody ==
    <<" ", "{", " ", "{", " ", "2", " ", "}", " ", "{", "}", " ", "}", " ", "}">>
MainBodies ==
    {SimpleBody, NestedBlockBody, StringBraceBody, NestedMainBody, DeepNestedBody}

\* an item with an attribute of its own, before the entry point
AttributedHelper ==
    <<"#[", "allow", "]", "\n", "fn", " ", "helper", "(", ")", " ", "{", "}", "\n">>

\* the code after the entry point
SyncExample == <<"\n", "fn", " ", "example", "(", ")", " ", "{", "}", "\n">>
AsyncResultExample ==
    <<"\n", "async", " ", "fn", " ", "example", "(", ")", " ", "->", " ", "Result", "<",
      "T", ">", " ", "{", "}", "\n">>
MainTails == {<<>>, SyncExample, AsyncResultExample}

RustSources ==
    {h \o sig \o b \o t : h \in MainHeads, sig \in MainSignatures, b \in MainBodies,
                          t \in MainTails}
    \cup {h \o t : h \in MainHeads, t \in MainTails}
    \cup {PlainSignature \o SimpleBody \o t \o AttributeAsyncSignature \o NestedBlockBody
            : t \in MainTails}
    \cup {AttributedHelper \o sig \o b \o t :
            sig \in PatternSignatures, b \in {SimpleBody, DeepNestedBody}, t \in MainTails}
    \cup {AttributedHelper \o t : t \in MainTails}

RECURSIVE SplitLines(_, _)
\* str.split("\n"): the lines of s, acc being the line under construction
SplitLines(s, acc) ==
    IF s = <<>> THEN <<acc>>
    ELSE IF Head(s) = "\n" THEN <<acc>> \o SplitLines(Tail(s), <<>>)
    ELSE SplitLines(Tail(s), Append(acc, Head(s)))

FnExample == <<"fn", " ", "example">>
AsyncFnExample == <<"async", " ", "fn", " ", "example">>
ResultOpen == <<"Result", "<">>

\* should_unwrap: the first line holding "fn example" and "Result<" sets it
ShouldUnwrap(c) ==
    LET lines == SplitLines(c, <<>>)
    IN  IF \E i \in 1..Len(lines) :
              /\ Find(Strip(lines[i]), FnExample, 0) # -1
              /\ Find(lines[i], ResultOpen, 0) # -1
        THEN <<".unwrap()">>
        ELSE <<>>

\* the entry point appended to the code
GeneratedMain(c) ==
    IF Find(c, AsyncFnExample, 0) = -1
    THEN <<"\n", "fn", " ", "main", "(", ")", " ", "{", "\n", " ", "println!", "(",
           "example", "(", "input_contents", ")">>
         \o ShouldUnwrap(c) \o <<")", ";", "\n", "}", "\n", "\n">>
    ELSE <<"\n", "#[", "tokio::main", "]", "\n", "async", " ", "fn", " ", "main", "(",
           ")", " ", "{", "\n", " ", "println!", "(", "example", "(", "input_contents",
           ")", ".await">>
         \o ShouldUnwrap(c) \o <<")", ";", "\n", "}", "\n", "\n">>

MainInit ==
    /\ JsonIdle
    /\ ContainsIdle
    /\ QueryIdle
    /\ ExecIdle
    /\ CaptureIdle
    /\ StringIdle
    /\ EntryIdle
    /\ ProviderIdle
    /\ DbIdle
    /\ rust_code \in RustSources
    /\ stripped = <<>>
    /\ wrapped = <<>>
    /\ mainPc = "start"

\* exec_call line 37
RemoveMain ==
    /\ mainPc = "start"
    /\ stripped' = remove_rust_main_function(rust_code)
    /\ mainPc' = "stripped"
    /\ UNCHANGED <<rust_code, wrapped, notMainVars>>

\* exec_call lines 39-63: the generated entry point is appended and the result
\* is what prepare_codebase writes
AppendMain ==
    /\ mainPc = "stripped"
    /\ wrapped' = stripped \o GeneratedMain(stripped)
    /\ mainPc' = "materialized"
    /\ UNCHANGED <<rust_code, stripped, notMainVars>>

MainNext == RemoveMain \/ AppendMain

SpecMain == MainInit /\ [][MainNext]_vars

(***************************************************************************)
(* Claims on the Rust entry point.                                         *)
(***************************************************************************)
\* C11: a main function whose body holds a string literal with a closing brace
\* is removed whole: what was before it and what was after it is all that is
\* left, with nothing of the function behind.
C11_StringBraceMainRemovedWhole ==
    \A h \in MainHeads, sig \in PatternSignatures, t \in MainTails :
        (mainPc # "start" /\ rust_code = h \o sig \o StringBraceBody \o t)
            => stripped = h \o t

\* A main function with nested blocks and no string literal is removed whole.
C11_NestedBlockMainRemovedWhole ==
    \A h \in MainHeads, sig \in PatternSignatures, t \in MainTails :
        (mainPc # "start" /\ rust_code = h \o sig \o NestedBlockBody \o t)
            => stripped = h \o t

\* the 1-based indices in s where an entry point "fn main (" starts
EntryPoints(s) ==
    {i \in 1..Len(s) :
        /\ s[i] = "fn"
        /\ LET a == SkipIn(s, i + 1, Whitespace)
           IN  /\ a > i + 1
               /\ a <= Len(s)
               /\ s[a] = "main"
               /\ LET b == SkipIn(s, a + 1, Whitespace)
                  IN  b <= Len(s) /\ s[b] = "("}

\* C12: the source exec_call materializes for a Rust Call task has exactly one
\* entry point, and it is the generated one: every fn main of the extracted code
\* is gone.
C12_GeneratedMainIsSoleEntryPoint ==
    mainPc = "materialized" =>
        /\ Cardinality(EntryPoints(wrapped)) = 1
        /\ \A i \in EntryPoints(wrapped) : i > Len(stripped)

\* The same for the extracted codes whose every main has a signature the
\* pattern covers.
C12_PatternMainsReplaced ==
    (mainPc = "materialized"
     /\ \A h \in MainHeads, b \in MainBodies, t \in MainTails :
            rust_code # h \o ReferenceReturnSignature \o b \o t)
        => /\ Cardinality(EntryPoints(wrapped)) = 1
           /\ \A i \in EntryPoints(wrapped) : i > Len(stripped)

(***************************************************************************)
(* are_string_values_equal (src/utils.py 93-97).  A string is a sequence   *)
(* of one-character tokens.                                                *)
(***************************************************************************)
MaxStrLen == 3

StringAlphabet == {"a", "A", " ", "\n"}
Strings == SeqsUpTo(StringAlphabet, MaxStrLen)

\* str.lower() of one character
LowerChar(c) == IF c = "A" THEN "a" ELSE c

\* str.lower() left out
StrLowerIdentity(s) == s
\* str.lower()
StrLower(s) == [i \in 1..Len(s) |-> LowerChar(s[i])]

are_string_values_equal(v1, v2, lc) ==
    IF lc
    THEN StrLower(Strip(v1)) = StrLower(Strip(v2))
    ELSE Strip(v1) = Strip(v2)

StringInit ==
    /\ JsonIdle
    /\ ContainsIdle
    /\ QueryIdle
    /\ ExecIdle
    /\ CaptureIdle
    /\ MainIdle
    /\ EntryIdle
    /\ ProviderIdle
    /\ DbIdle
    /\ strValue1 \in Strings
    /\ strValue2 \in Strings
    /\ lowercase \in BOOLEAN
    /\ strResult = FALSE
    /\ strPc = "call"

StringCompare ==
    /\ strPc = "call"
    /\ strResult' = are_string_values_equal(strValue1, strValue2, lowercase)
    /\ strPc' = "done"
    /\ UNCHANGED <<strValue1, strValue2, lowercase, notStringVars>>

StringNext == StringCompare

SpecString == StringInit /\ [][StringNext]_vars

\* s with every upper-case letter replaced by its lower-case letter
Lowered(s) == [i \in 1..Len(s) |-> IF s[i] = "A" THEN "a" ELSE s[i]]

\* C13: the result is true exactly when the two strings are equal after
\* trimming surrounding whitespace, both sides lowered first when the lowercase
\* flag is set, compared case-sensitively when it is not.
C13_TrimmedEqualityWithOptionalLowering ==
    strPc = "done" =>
        (strResult <=>
            IF lowercase
            THEN Trimmed(Lowered(strValue1)) = Trimmed(Lowered(strValue2))
            ELSE Trimmed(strValue1) = Trimmed(strValue2))

\* the flag decides: strings that differ in case and in surrounding whitespace
\* only are found equal with the flag
C13_Witness ==
    /\ strPc = "done"
    /\ lowercase
    /\ strResult
    /\ strValue1 = <<" ", "A", "a">>
    /\ strValue2 = <<"a", "A", "\n">>

\* and unequal without it, while surrounding whitespace alone is ignored
C13_CaseSensitiveWitness ==
    /\ strPc = "done"
    /\ ~lowercase
    /\ ~strResult
    /\ Trimmed(Lowered(strValue1)) = Trimmed(Lowered(strValue2))

\* bodies with balanced braces and no brace inside a literal
BalancedBodies == MainBodies \ {StringBraceBody}

\* what may stand before the entry point
MainPrefixes == MainHeads \cup {AttributedHelper}

\* C22: on source with balanced braces and no brace inside a literal,
\* remove_rust_main_function removes exactly the text from the start of the
\* entry-point signature to the closing brace matching its opening brace,
\* however deep the nesting, leaves the text before and after it unchanged, and
\* returns the input unchanged when no entry-point signature is present.
C22_ExactlyTheEntryPointRemoved ==
    mainPc # "start" =>
        /\ \A pre \in MainPrefixes, sig \in PatternSignatures, b \in BalancedBodies,
              t \in MainTails :
              rust_code = pre \o sig \o b \o t => stripped = pre \o t
        /\ EntryPoints(rust_code) = {} => stripped = rust_code

\* With no attribute on an earlier item and no `fn main` nested in the body,
\* the entry point is removed exactly, and a source without one is unchanged.
C22_PlainPrefixEntryPointRemoved ==
    mainPc # "start" =>
        /\ \A pre \in MainHeads, sig \in PatternSignatures,
              b \in BalancedBodies \ {NestedMainBody}, t \in MainTails :
              rust_code = pre \o sig \o b \o t => stripped = pre \o t
        /\ EntryPoints(rust_code) = {} => stripped = rust_code

C22_DeepNestingWitness ==
    /\ mainPc # "start"
    /\ rust_code = <<"1", "\n">> \o ReturnTypeSignature \o DeepNestedBody \o SyncExample
    /\ stripped = <<"1", "\n">> \o SyncExample

(***************************************************************************)
(* The entry points of the source the Rust query_code combines.            *)
(***************************************************************************)
\* the surviving blocks tagged as Rust that define an entry point
RustMainBlocks ==
    {i \in 1..Len(code_blocks) :
        /\ TagAccepted("rust", code_blocks[i].lang)
        /\ EntryPoints(code_blocks[i].code) # {}}

\* C30: the Rust query_code removes fn main from the first block only when a
\* later Rust block of the combined source supplies one: if a Rust-tagged
\* block of the response defines fn main the combined source contains a fn
\* main, and it contains at most one when two Rust blocks define fn main.
C30_CombinedSourceKeepsOneMain ==
    (lang = "rust" /\ queryPc \in {"extracted", "again"}) =>
        /\ RustMainBlocks # {} => EntryPoints(code) # {}
        /\ Cardinality(RustMainBlocks) = 2 => Cardinality(EntryPoints(code)) <= 1

\* The same when the second surviving block is tagged as Rust or has no
\* "fn main" in it.
C30_RustSecondBlockKeepsOneMain ==
    (/\ lang = "rust"
     /\ queryPc \in {"extracted", "again"}
     /\ Len(code_blocks) >= 2 =>
            \/ TagAccepted("rust", code_blocks[2].lang)
            \/ Find(code_blocks[2].code, FnMain, 0) = -1) =>
        /\ RustMainBlocks # {} => EntryPoints(code) # {}
        /\ Cardinality(RustMainBlocks) = 2 => Cardinality(EntryPoints(code)) <= 1

\* two Rust blocks with an entry point each were combined into a source with one
C30_Witness ==
    /\ lang = "rust"
    /\ queryPc = "extracted"
    /\ Cardinality(RustMainBlocks) = 2
    /\ Cardinality(EntryPoints(code)) = 1

(***************************************************************************)
(* Call task: the entry point exec_call appends to the extracted code, for *)
(* the adapters whose language has asynchronous functions.                 *)
(***************************************************************************)
AsyncLanguages == {"rust", "typescript", "python"}

\* the keyword that declares a function
DeclKeyword(l) ==
    IF l = "rust" THEN "fn" ELSE IF l = "typescript" THEN "function" ELSE "def"

\* a function declaration with an empty body
FunctionDecl(l, async, name) ==
    (IF async THEN <<"async", " ">> ELSE <<>>)
    \o <<DeclKeyword(l), " ", name, "(", ")", " ">>
    \o (IF l = "python" THEN <<":", " ", "pass", "\n">> ELSE <<"{", "}", "\n">>)

\* what the response may hold besides `example`
EntryHelpers(l) ==
    {<<>>, FunctionDecl(l, FALSE, "helper"), FunctionDecl(l, TRUE, "helper")}

EntryHeads == {<<>>, <<"1", "\n">>}

\* what follows `example`: nothing, a statement, an entry point of the model's own
EntryTails(l) ==
    {<<>>, <<"2", "\n">>}
    \cup (IF l = "rust" THEN {PlainSignature \o SimpleBody} ELSE {})

\* a TypeScript `example` that is no function declaration
ArrowExample ==
    <<"const", " ", "example", " ", "=", " ", "async", " ", "(", ")", " ", "=>", " ",
      "{", "}", "\n">>

EntryExamples(l) ==
    {FunctionDecl(l, FALSE, "example"), FunctionDecl(l, TRUE, "example")}
    \cup (IF l = "typescript" THEN {ArrowExample} ELSE {})

EntrySources(l) ==
    {h \o before \o e \o after \o t :
        h \in EntryHeads, before \in EntryHelpers(l), e \in EntryExamples(l),
        after \in {<<>>, FunctionDecl(l, TRUE, "helper")}, t \in EntryTails(l)}

AsyncFunction == <<"async", " ", "function">>

\* src/exec_typescript/exec_call.py 49-58
TypescriptEntry(c) ==
    <<"\n", "const", " ", "result", " ", "=", " ">>
    \o (IF Find(c, AsyncFunction, 0) # -1 THEN <<"await", " ">> ELSE <<>>)
    \o <<"example", "(", "input_contents", ")", ";", "\n", "console.log", "(",
         "result", ")", ";", "\n">>

\* src/exec_python/exec_call.py 36-43: the code is stripped and the guard with
\* the call is put after it
PythonEntry ==
    <<"\n", "\n", "if", " ", "__name__", ":", "\n", " ", "import", " ", "sys", "\n",
      " ", "print", "(", "example", "(", "input_contents", ")", ")", "\n">>

EntryInit ==
    /\ JsonIdle
    /\ ContainsIdle
    /\ QueryIdle
    /\ ExecIdle
    /\ CaptureIdle
    /\ MainIdle
    /\ StringIdle
    /\ ProviderIdle
    /\ DbIdle
    /\ entryLang \in AsyncLanguages
    /\ example_code \in EntrySources(entryLang)
    /\ entry_point = <<>>
    /\ entryPc = "extracted"

\* exec_call of the Rust adapter, lines 37-61
RustWrap ==
    /\ entryPc = "extracted"
    /\ entryLang = "rust"
    /\ entry_point' = GeneratedMain(remove_rust_main_function(example_code))
    /\ entryPc' = "materialized"
    /\ UNCHANGED <<entryLang, example_code, notEntryVars>>

\* exec_call of the TypeScript adapter, lines 37-58
TypescriptWrap ==
    /\ entryPc = "extracted"
    /\ entryLang = "typescript"
    /\ IF Find(example_code, FunctionExample, 0) = -1
       THEN entryPc' = "no example" /\ UNCHANGED entry_point
       ELSE entry_point' = TypescriptEntry(example_code) /\ entryPc' = "materialized"
    /\ UNCHANGED <<entryLang, example_code, notEntryVars>>

\* exec_call of the Python adapter, lines 36-43
PythonWrap ==
    /\ entryPc = "extracted"
    /\ entryLang = "python"
    /\ entry_point' = PythonEntry
    /\ entryPc' = "materialized"
    /\ UNCHANGED <<entryLang, example_code, notEntryVars>>

EntryNext == RustWrap \/ TypescriptWrap \/ PythonWrap

SpecEntry == EntryInit /\ [][EntryNext]_vars

\* `example` is declared by the language's keyword with `async` before it
ExampleIsAsync(l, c) ==
    \E i \in 3..(Len(c) - 2) :
        /\ c[i] = DeclKeyword(l) /\ c[i + 1] = " " /\ c[i + 2] = "example"
        /\ c[i - 2] = "async" /\ c[i - 1] = " "

\* the generated entry point awaits the call to `example`
Awaits(e) ==
    \/ \E i \in 1..Len(e) : e[i] = ".await"
    \/ \E i \in 1..(Len(e) - 2) : e[i] = "await" /\ e[i + 1] = " " /\ e[i + 2] = "example"

\* C21: the generated entry point awaits the call to `example` if and only if
\* the extracted `example` function is declared asynchronous.
C21_AwaitsIffExampleAsync ==
    entryPc = "materialized" =>
        (Awaits(entry_point) <=> ExampleIsAsync(entryLang, example_code))

\* The Rust adapter meets it: its test is on `async fn example` itself.
C21_RustAwaitsIffExampleAsync ==
    (entryPc = "materialized" /\ entryLang = "rust") =>
        (Awaits(entry_point) <=> ExampleIsAsync(entryLang, example_code))

C21_RustWitness ==
    /\ entryPc = "materialized"
    /\ entryLang = "rust"
    /\ Awaits(entry_point)
    /\ ExampleIsAsync(entryLang, example_code)

(***************************************************************************)
(* The retry loop of a provider's request: request_openrouter of          *)
(* src/llm.py (the same text as provider/openrouter.py request) and the    *)
(* request of provider/inception.py.  One step is one pass of the loop,    *)
(* its except and finally clauses included.                                *)
(***************************************************************************)
RetryLimit == 3

Providers == {"openrouter", "inception"}

\* what one attempt comes to: a 200 with content and usage; another status; a
\* socket timeout; an HTTPException or ConnectionError; a 200 whose body is no
\* JSON; a 200 whose JSON lacks a key or an index; a 200 whose JSON has null
\* or a list where a map is indexed; an OSError that is neither a timeout nor
\* a ConnectionError (name resolution, TLS)
AttemptOutcomes ==
    {"ok", "non200", "timeout", "connection", "not_json", "missing_key", "wrong_shape",
     "os_error"}

\* the outcomes in which getresponse() has returned
ResponseObtained == {"ok", "non200", "not_json", "missing_key", "wrong_shape"}

\* response.status once this attempt has run: `response` keeps the object of
\* an earlier attempt when this one got none; 0 stands for the unbound name
StatusAfter(status, outcome) ==
    IF outcome \notin ResponseObtained THEN status
    ELSE IF outcome = "non200" THEN 500
    ELSE 200

\* the exception the body of the try statement lets out, "none" when it is
\* handled by a clause that counts the failure, "return" for the return
OpenrouterBody(outcome) ==
    CASE outcome = "ok" -> "return"
      [] outcome = "wrong_shape" -> "TypeError"
      [] outcome = "os_error" -> "OSError"
      [] OTHER -> "none"

ProviderInit ==
    /\ JsonIdle
    /\ ContainsIdle
    /\ QueryIdle
    /\ ExecIdle
    /\ CaptureIdle
    /\ MainIdle
    /\ StringIdle
    /\ EntryIdle
    /\ DbIdle
    /\ provider \in Providers
    /\ fail_counter = 0
    /\ attempts = 0
    /\ response_status = 0
    /\ outcomes = <<>>
    /\ raised = "none"
    /\ providerPc = "loop"

\* `if fail_counter >= 3: raise TimeoutError(...)`
GiveUp ==
    /\ providerPc = "loop"
    /\ fail_counter >= RetryLimit
    /\ raised' = "TimeoutError"
    /\ providerPc' = "raised"
    /\ UNCHANGED <<provider, fail_counter, attempts, response_status, outcomes,
                   notProviderVars>>

\* the effect of one pass given what leaves the try statement
EndOfPass(leaving, counted) ==
    /\ fail_counter' = IF counted THEN fail_counter + 1 ELSE fail_counter
    /\ raised' = IF leaving \in {"none", "return"} THEN "none" ELSE leaving
    /\ providerPc' =
          CASE leaving = "none" -> "loop"
            [] leaving = "return" -> "returned"
            [] OTHER -> "raised"

\* one pass of the loop of request_openrouter
OpenrouterAttempt ==
    /\ providerPc = "loop"
    /\ provider = "openrouter"
    /\ fail_counter < RetryLimit
    /\ \E outcome \in AttemptOutcomes :
        /\ attempts' = attempts + 1
        /\ outcomes' = Append(outcomes, outcome)
        /\ response_status' = StatusAfter(response_status, outcome)
        /\ EndOfPass(OpenrouterBody(outcome), OpenrouterBody(outcome) = "none")
    /\ UNCHANGED <<provider, notProviderVars>>

\* one pass of the loop of the Inception request: the try statement as in
\* request_openrouter, then the finally clause, which reads response.status
\* unless fail_counter has reached 3
InceptionAttempt ==
    /\ providerPc = "loop"
    /\ provider = "inception"
    /\ fail_counter < RetryLimit
    /\ \E outcome \in AttemptOutcomes :
        LET body == OpenrouterBody(outcome)
            counted == body = "none"
            counter == IF counted THEN fail_counter + 1 ELSE fail_counter
            status == StatusAfter(response_status, outcome)
            leaving == IF counter < RetryLimit /\ status = 0
                       THEN "UnboundLocalError"
                       ELSE body
        IN  /\ attempts' = attempts + 1
            /\ outcomes' = Append(outcomes, outcome)
            /\ response_status' = status
            /\ EndOfPass(leaving, counted)
    /\ UNCHANGED <<provider, notProviderVars>>

ProviderNext == GiveUp \/ OpenrouterAttempt \/ InceptionAttempt

SpecProvider == ProviderInit /\ [][ProviderNext]_vars

\* the loop is not suspended for ever between two passes
SpecProviderFair == SpecProvider /\ WF_vars(ProviderNext)

\* the attempts so far that did not get a 200 with content and usage
FailedAttempts == Cardinality({i \in 1..Len(outcomes) : outcomes[i] # "ok"})

\* C24: the Inception request raises TimeoutError when three attempts have
\* failed in a row, and no other exception type leaves it, whatever the
\* failure of each attempt is, the first attempt failing before any response
\* was obtained included.
C24_InceptionRaisesOnlyTimeoutError ==
    provider = "inception" =>
        /\ providerPc = "raised" => raised = "TimeoutError"
        /\ (FailedAttempts = RetryLimit /\ providerPc # "loop") => raised = "TimeoutError"

\* When the first attempt obtained a response and no body has a wrong shape,
\* three failures end in TimeoutError and nothing else is raised.
C24_AfterFirstResponse ==
    (/\ provider = "inception"
     /\ outcomes # <<>>
     /\ outcomes[1] \in ResponseObtained
     /\ \A i \in 1..Len(outcomes) : outcomes[i] \notin {"wrong_shape", "os_error"}) =>
        /\ providerPc = "raised" => raised = "TimeoutError"
        /\ (FailedAttempts = RetryLimit /\ providerPc # "loop") => raised = "TimeoutError"

C24_Witness ==
    /\ provider = "inception"
    /\ outcomes = <<"non200", "timeout", "not_json">>
    /\ raised = "TimeoutError"

\* C29: request_openrouter makes at most three attempts, returns at the first
\* attempt that gets a 200 with content and usage, counts every other outcome
\* as one failure, and raises TimeoutError once the counter has reached 3,
\* which it never exceeds.
C29_ThreeAttemptsCountedFailures ==
    provider = "openrouter" =>
        /\ attempts <= RetryLimit
        /\ fail_counter <= RetryLimit
        /\ fail_counter = FailedAttempts
        /\ providerPc = "returned" => outcomes[Len(outcomes)] = "ok"
        /\ providerPc = "raised" => (raised = "TimeoutError" /\ fail_counter = RetryLimit)
        /\ (Len(outcomes) > 0 /\ outcomes[Len(outcomes)] = "ok") => providerPc = "returned"

\* The same for the failures the except clauses name.
C29_NamedFailuresCounted ==
    (/\ provider = "openrouter"
     /\ \A i \in 1..Len(outcomes) : outcomes[i] \notin {"wrong_shape", "os_error"}) =>
        /\ attempts <= RetryLimit
        /\ fail_counter <= RetryLimit
        /\ fail_counter = FailedAttempts
        /\ providerPc = "returned" => outcomes[Len(outcomes)] = "ok"
        /\ providerPc = "raised" => (raised = "TimeoutError" /\ fail_counter = RetryLimit)
        /\ (Len(outcomes) > 0 /\ outcomes[Len(outcomes)] = "ok") => providerPc = "returned"

\* The loop ends: the request returns or raises.
C29_LoopTerminates == <>(providerPc # "loop")

C29_Witness ==
    /\ provider = "openrouter"
    /\ outcomes = <<"timeout", "non200", "ok">>
    /\ providerPc = "returned"

(***************************************************************************)
(* ResultDB (src/db.py) under execute_all_tasks (src/main.py) and          *)
(* merge_with.  A result is the TestResult fields the operations read: the *)
(* key (run, task_name, model, language), success and errors.              *)
(***************************************************************************)
MaxResults == 5
MaxOther == 2

DbTaskNames == {"a.json", "b.json"}
DbLanguages == {"rust", "python"}
DbRuns == {1}
DbModel == "m1"

\* what Executor.call returns: TaskResult(success, errors); its result field
\* is Result(success, errors) over the same list (utils.py 46, 50)
TaskResults ==
    {[success |-> TRUE, errors |-> <<>>], [success |-> FALSE, errors |-> <<"e1", "e2">>]}

\* the results of a database file written by another run
OtherResults ==
    [run : DbRuns, task_name : DbTaskNames, model : {DbModel}, language : DbLanguages,
     success : {FALSE}, errors : {<<"x">>}]

\* load_all_tasks: the file names of the task directory in the order of
\* os.listdir, a name twice when it is in the language's directory as well
TaskLists ==
    {<<"a.json", "b.json">>, <<"b.json", "a.json">>, <<"a.json", "a.json">>, <<"b.json">>}

KeyOf(r) == <<r.run, r.task_name, r.model, r.language>>

\* a lookup that looks at the newest result only
has_result_newest(rs, run, task_name, model, language_value) ==
    /\ rs # <<>>
    /\ rs[Len(rs)].run = run
    /\ rs[Len(rs)].task_name = task_name
    /\ rs[Len(rs)].model = model
    /\ rs[Len(rs)].language = language_value

\* ResultDB.has_result
has_result(rs, run, task_name, model, language_value) ==
    \E i \in 1..Len(rs) :
        /\ rs[i].run = run
        /\ rs[i].task_name = task_name
        /\ rs[i].model = model
        /\ rs[i].language = language_value

\* the TestResult add_result appends, called as main.py calls it:
\* result=result.result, errors=result.errors
add_result(tr, run, task_name, model, language_value) ==
    [run |-> run, task_name |-> task_name, model |-> model, language |-> language_value,
     success |-> tr.success, errors |-> tr.errors \o tr.errors]

RECURSIVE merge_with(_, _)
\* the loop of merge_with over other_db.results
merge_with(rs, other) ==
    IF other = <<>> THEN rs
    ELSE LET r == Head(other)
         IN  IF ~has_result(rs, r.run, r.task_name, r.model, r.language)
             THEN merge_with(Append(rs, r), Tail(other))
             ELSE merge_with(rs, Tail(other))

DbInit ==
    /\ JsonIdle
    /\ ContainsIdle
    /\ QueryIdle
    /\ ExecIdle
    /\ CaptureIdle
    /\ MainIdle
    /\ StringIdle
    /\ EntryIdle
    /\ ProviderIdle
    /\ db_results \in {<<>>} \cup {<<r>> : r \in OtherResults}
    /\ tasks = <<>>
    /\ run_args = <<>>
    /\ task_result = <<>>
    /\ executed_key = <<>>
    /\ last_op = "none"
    /\ dbPc = "ready"

\* execute_all_tasks is called: load_all_tasks, Executor(language)
StartRun ==
    /\ dbPc = "ready"
    /\ \E r \in DbRuns, l \in DbLanguages, limit \in {None, "a.json"} :
          run_args' = [run |-> r, model |-> DbModel, language |-> l, limit |-> limit]
    /\ tasks' \in TaskLists
    /\ last_op' = "started"
    /\ dbPc' = "loop"
    /\ UNCHANGED <<db_results, task_result, executed_key, notDbVars>>

\* one pass of the loop over the tasks: filtered by limit, skipped when the
\* database has the result, otherwise executed and added
TaskStep ==
    /\ dbPc = "loop"
    /\ tasks # <<>>
    /\ Len(db_results) < MaxResults
    /\ LET task == Head(tasks)
           a == run_args
       IN  IF a.limit # None /\ task # a.limit
           THEN /\ last_op' = "filtered"
                /\ UNCHANGED <<db_results, task_result, executed_key>>
           ELSE IF has_result(db_results, a.run, task, a.model, a.language)
               THEN /\ last_op' = "skipped"
                    /\ UNCHANGED <<db_results, task_result, executed_key>>
           ELSE \E tr \in TaskResults :
                    /\ task_result' = <<tr>>
                    /\ executed_key' = <<<<a.run, task, a.model, a.language>>>>
                    /\ db_results' =
                          Append(db_results, add_result(tr, a.run, task, a.model, a.language))
                    /\ last_op' = "added"
    /\ tasks' = Tail(tasks)
    /\ UNCHANGED <<run_args, dbPc, notDbVars>>

\* Executor.call raises: the loop is left and nothing is added
TaskRaises ==
    /\ dbPc = "loop"
    /\ tasks # <<>>
    /\ LET task == Head(tasks)
           a == run_args
       IN  /\ ~(a.limit # None /\ task # a.limit)
           /\ ~has_result(db_results, a.run, task, a.model, a.language)
           /\ executed_key' = <<<<a.run, task, a.model, a.language>>>>
    /\ task_result' = <<>>
    /\ tasks' = <<>>
    /\ last_op' = "raised"
    /\ dbPc' = "ready"
    /\ UNCHANGED <<db_results, run_args, notDbVars>>

\* the loop is over: return total_cost
EndRun ==
    /\ dbPc = "loop"
    /\ tasks = <<>>
    /\ last_op' = "returned"
    /\ dbPc' = "ready"
    /\ UNCHANGED <<db_results, tasks, run_args, task_result, executed_key, notDbVars>>

\* db.merge_with(other_db) and its save_db
MergeWith ==
    /\ dbPc = "ready"
    /\ Len(db_results) < MaxResults
    /\ \E other \in SeqsUpTo(OtherResults, MaxOther) :
          db_results' = merge_with(db_results, other)
    /\ last_op' = "merged"
    /\ UNCHANGED <<tasks, run_args, task_result, executed_key, dbPc, notDbVars>>

DbNext == StartRun \/ TaskStep \/ TaskRaises \/ EndRun \/ MergeWith

SpecDb == DbInit /\ [][DbNext]_vars

\* C26: the error list add_result persists for a task attempt is the error
\* list of the TaskResult the executor returned: the same elements in the same
\* order, each once.
C26_PersistedErrorsAreTaskErrors ==
    last_op = "added" => db_results[Len(db_results)].errors = task_result[1].errors

\* The persisted list is the TaskResult's list when that list is empty, and
\* the persisted verdict is the TaskResult's.
C26_EmptyErrorsAndVerdictPersisted ==
    last_op = "added" =>
        /\ task_result[1].errors = <<>> => db_results[Len(db_results)].errors = <<>>
        /\ db_results[Len(db_results)].success = task_result[1].success

C26_Witness ==
    /\ last_op = "added"
    /\ task_result[1].errors = <<>>
    /\ db_results[Len(db_results)].errors = <<>>

\* no two results of the list share (run, task_name, model, language)
UniqueKeys(rs) ==
    \A i, j \in 1..Len(rs) : KeyOf(rs[i]) = KeyOf(rs[j]) => i = j

\* C27: from a database with no two results of one key, after any sequence of
\* execute_all_tasks runs and merge_with calls the list holds at most one
\* result per (run, task_name, model, language); a task whose key has a result
\* is not executed again, and merge_with changes no result already present.
C27_OneResultPerKey ==
    /\ [](UniqueKeys(db_results))
    /\ [][/\ last_op' \in {"added", "raised"} =>
                \A i \in 1..Len(db_results) : KeyOf(db_results[i]) # executed_key'[1]
          /\ \A i \in 1..Len(db_results) :
                Len(db_results') >= i /\ db_results'[i] = db_results[i]]_vars

\* a run has skipped a task whose result a merge had brought in, and the list
\* holds a result for every key
C27_Witness ==
    /\ last_op = "skipped"
    /\ Len(db_results) = 4
    /\ \E i \in 1..Len(db_results) : db_results[i].errors = <<"x">>
    /\ \E i \in 1..Len(db_results) : db_results[i].errors # <<"x">>
====
